---- MODULE Spec2Model ----
(***************************************************************************)
(* The site analytics module of lmsc_website (src/app.py): the ingestion   *)
(* endpoint POST /analytics/track, the event store analytics_events, the   *)
(* reporting endpoint GET /admin/analytics and the pure helpers they use.  *)
(*                                                                         *)
(* Representation.  A Python str is a sequence of one-character strings,   *)
(* so that lower(), startswith(), "in" and split() are computed character  *)
(* by character.  A JSON / Python value is a record [t, s, n]: t is the    *)
(* type tag, s the characters of a str, n the number (a bool is 0/1, a     *)
(* list is known by its length).  None and JSON null are JNull.            *)
(* A timestamp is the number of seconds since the start of the run: the    *)
(* "%Y-%m-%d %H:%M:%S" text of current_timestamp() and SQLite's datetime() *)
(* are order-preserving encodings of whole seconds.                        *)
(***************************************************************************)
EXTENDS Integers, Sequences, FiniteSets, TLC

VARIABLES
    events,     \* table analytics_events: the sequence of rows, in insertion order
    leads,      \* table leads: the sequence of rows (created_at)
    now,        \* the server clock, in seconds
    track,      \* the last request served by analytics_track and its response
    report,     \* the admin_analytics request in progress: position and locals
    calc,       \* the last call of a pure helper: arguments and result
    requests,   \* the requests served step by step: position and locals (flask.g)
    connections,   \* the sqlite3 connections opened so far: owner and state
    prospectus_versions   \* table prospectus_versions and its AUTOINCREMENT counter

\* the state of the step-by-step requests and of the prospectus table
aside == <<requests, connections, prospectus_versions>>

vars == <<events, leads, now, track, report, calc, requests, connections,
          prospectus_versions>>

(***************************************************************************)
(* Bounds of the model.                                                    *)
(***************************************************************************)
MaxEvents == 2      \* rows the store may hold in the ingestion specification

(***************************************************************************)
(* Python str operations, on sequences of characters.                      *)
(***************************************************************************)
UpperLetters == <<"A", "B", "C", "D", "E", "F", "G", "H", "I", "J", "K", "L", "M",
                  "N", "O", "P", "Q", "R", "S", "T", "U", "V", "W", "X", "Y", "Z">>
LowerLetters == <<"a", "b", "c", "d", "e", "f", "g", "h", "i", "j", "k", "l", "m",
                  "n", "o", "p", "q", "r", "s", "t", "u", "v", "w", "x", "y", "z">>
Digits == <<"0", "1", "2", "3", "4", "5", "6", "7", "8", "9">>

Range(f) == {f[i] : i \in DOMAIN f}

\* str.lower() of one character
LowerChar(c) ==
    IF \E i \in 1..26 : UpperLetters[i] = c
    THEN LowerLetters[CHOOSE i \in 1..26 : UpperLetters[i] = c]
    ELSE c

\* str.lower()
Lower(s) == [i \in 1..Len(s) |-> LowerChar(s[i])]

\* s.startswith(p)
StartsWith(s, p) == Len(p) <= Len(s) /\ SubSeq(s, 1, Len(p)) = p

\* p in s  (substring test)
Contains(s, p) ==
    \E i \in 1..(Len(s) - Len(p) + 1) : SubSeq(s, i, i + Len(p) - 1) = p

\* s.find(c) for one character, 1-based; 0 when absent
Find(s, c) ==
    IF \E i \in 1..Len(s) : s[i] = c
    THEN CHOOSE i \in 1..Len(s) : s[i] = c /\ \A j \in 1..(i - 1) : s[j] # c
    ELSE 0

\* the first position of any character of cs at or after position from; Len(s)+1 when none
FindAny(s, cs, from) ==
    IF \E i \in from..Len(s) : s[i] \in cs
    THEN CHOOSE i \in from..Len(s) : s[i] \in cs /\ \A j \in from..(i - 1) : s[j] \notin cs
    ELSE Len(s) + 1

\* s.rstrip(c) for one character
RECURSIVE RStrip(_, _)
RStrip(s, c) ==
    IF s # <<>> /\ s[Len(s)] = c THEN RStrip(SubSeq(s, 1, Len(s) - 1), c) ELSE s

\* str(n) of an int
RECURSIVE DecimalNat(_)
DecimalNat(n) ==
    IF n < 10 THEN <<Digits[n + 1]>> ELSE DecimalNat(n \div 10) \o <<Digits[(n % 10) + 1]>>
Decimal(n) == IF n < 0 THEN <<"-">> \o DecimalNat(-n) ELSE DecimalNat(n)

\* s.endswith(p)
EndsWith(s, p) == Len(p) <= Len(s) /\ SubSeq(s, Len(s) - Len(p) + 1, Len(s)) = p

\* str.upper() of one character
UpperChar(c) ==
    IF \E i \in 1..26 : LowerLetters[i] = c
    THEN UpperLetters[CHOOSE i \in 1..26 : LowerLetters[i] = c]
    ELSE c

\* str.upper()
Upper(s) == [i \in 1..Len(s) |-> UpperChar(s[i])]

\* str.title(): a letter that follows a letter is lower-cased, any other letter
\* is upper-cased
Title(s) ==
    [i \in 1..Len(s) |->
        IF i > 1 /\ (s[i - 1] \in Range(UpperLetters) \cup Range(LowerLetters))
        THEN LowerChar(s[i])
        ELSE UpperChar(s[i])]

\* s.split(c) for one character: the pieces between the occurrences of c
RECURSIVE Split(_, _)
Split(s, c) ==
    LET i == Find(s, c)
    IN  IF i = 0 THEN <<s>>
        ELSE <<SubSeq(s, 1, i - 1)>> \o Split(SubSeq(s, i + 1, Len(s)), c)

\* s.strip(c) for one character
RECURSIVE StripChar(_, _)
StripChar(s, c) ==
    IF s # <<>> /\ s[1] = c THEN StripChar(Tail(s), c)
    ELSE IF s # <<>> /\ s[Len(s)] = c THEN StripChar(SubSeq(s, 1, Len(s) - 1), c)
    ELSE s

(***************************************************************************)
(* JSON / Python values.                                                   *)
(***************************************************************************)
JNull == [t |-> "null", s |-> <<>>, n |-> 0]
JStr(s) == [t |-> "str", s |-> s, n |-> 0]
JNum(n) == [t |-> "num", s |-> <<>>, n |-> n]
JBool(b) == [t |-> "bool", s |-> <<>>, n |-> IF b THEN 1 ELSE 0]
JList(len) == [t |-> "list", s |-> <<>>, n |-> len]

\* Python truth value: None, False, 0, "" and [] are false
Truthy(j) ==
    CASE j.t = "null" -> FALSE
      [] j.t = "str" -> j.s # <<>>
      [] OTHER -> j.n # 0

\* x or y
Or(x, y) == IF Truthy(x) THEN x ELSE y

\* str(x) of a scalar
Str(j) ==
    CASE j.t = "null" -> <<"N", "o", "n", "e">>
      [] j.t = "str" -> j.s
      [] j.t = "bool" -> IF j.n = 1 THEN <<"T", "r", "u", "e">> ELSE <<"F", "a", "l", "s", "e">>
      [] OTHER -> Decimal(j.n)

\* the keys of the beacon object that the model carries
Keys == {"path", "url", "referrer", "visitor_id", "session_id", "is_session_start",
         "page_slug", "page_title", "language", "timezone"}

\* a JSON object: payload.get(k) is None for an absent key and for a null one alike
EmptyObj == [k \in Keys |-> JNull]
Obj(f) == [k \in Keys |-> IF k \in DOMAIN f THEN f[k] ELSE JNull]

BodyMalformed == [kind |-> "malformed", val |-> JNull, obj |-> EmptyObj]
BodyValue(j) == [kind |-> "value", val |-> j, obj |-> EmptyObj]
BodyObject(f) == [kind |-> "object", val |-> JNull, obj |-> Obj(f)]

(***************************************************************************)
(* urllib.parse.urlparse, as far as the handlers use it: the scheme, the   *)
(* network location, the path and the query.  ok = FALSE is the ValueError *)
(* ("Invalid IPv6 URL") raised for an unbalanced bracket in the location.  *)
(***************************************************************************)
SchemeChars == Range(UpperLetters) \cup Range(LowerLetters) \cup Range(Digits) \cup {"+", "-", "."}

Letters == Range(UpperLetters) \cup Range(LowerLetters)

urlparse(url) ==
    LET i == Find(url, ":")
        hasScheme == /\ i > 1
                     /\ url[1] \in Letters
                     /\ \A j \in 1..(i - 1) : url[j] \in SchemeChars
        scheme == IF hasScheme THEN Lower(SubSeq(url, 1, i - 1)) ELSE <<>>
        rest == IF hasScheme THEN SubSeq(url, i + 1, Len(url)) ELSE url
        hasNetloc == StartsWith(rest, <<"/", "/">>)
        delim == FindAny(rest, {"/", "?", "#"}, 3)
        netloc == IF hasNetloc THEN SubSeq(rest, 3, delim - 1) ELSE <<>>
        tail == IF hasNetloc THEN SubSeq(rest, delim, Len(rest)) ELSE rest
        stop == FindAny(tail, {"?", "#"}, 1)
        after == SubSeq(tail, stop + 1, Len(tail))
        hasQuery == stop <= Len(tail) /\ tail[stop] = "?"
        open == \E k \in 1..Len(netloc) : netloc[k] = "["
        close == \E k \in 1..Len(netloc) : netloc[k] = "]"
    IN  [ok |-> (open <=> close),
         scheme |-> scheme,
         netloc |-> netloc,
         path |-> SubSeq(tail, 1, stop - 1),
         query |-> IF hasQuery THEN SubSeq(after, 1, FindAny(after, {"#"}, 1) - 1) ELSE <<>>]

(***************************************************************************)
(* urllib.parse.parse_qs, as classify_traffic_source uses it: the first    *)
(* non-blank value of a name.                                              *)
(***************************************************************************)
\* the printable ASCII characters, from code 32 to code 126 (the grave accent,
\* code 96, is written "GRAVE")
Ascii == <<" ", "!", "\"", "#", "$", "%", "&", "'", "(", ")", "*", "+",
          ",", "-", ".", "/", "0", "1", "2", "3", "4", "5", "6", "7",
          "8", "9", ":", ";", "<", "=", ">", "?", "@", "A", "B", "C",
          "D", "E", "F", "G", "H", "I", "J", "K", "L", "M", "N", "O",
          "P", "Q", "R", "S", "T", "U", "V", "W", "X", "Y", "Z", "[",
          "\\", "]", "^", "_", "GRAVE", "a", "b", "c", "d", "e", "f", "g",
          "h", "i", "j", "k", "l", "m", "n", "o", "p", "q", "r", "s",
          "t", "u", "v", "w", "x", "y", "z", "{", "|", "}", "~">>

HexDigits == <<"0", "1", "2", "3", "4", "5", "6", "7", "8", "9", "a", "b", "c", "d", "e", "f">>

IsHex(c) == \E i \in 1..16 : HexDigits[i] = LowerChar(c)

HexValue(c) == (CHOOSE i \in 1..16 : HexDigits[i] = LowerChar(c)) - 1

\* unquote(s.replace("+", " ")): "+" is a space, "%XX" is the character of code
\* XX, a "%" that no two hex digits follow stays.  The escapes of the model's
\* inputs are those of printable ASCII characters.
RECURSIVE unquote_plus(_)
unquote_plus(s) ==
    IF s = <<>> THEN <<>>
    ELSE IF s[1] = "+" THEN <<" ">> \o unquote_plus(Tail(s))
    ELSE IF /\ s[1] = "%" /\ Len(s) >= 3 /\ IsHex(s[2]) /\ IsHex(s[3])
            /\ 16 * HexValue(s[2]) + HexValue(s[3]) \in 32..126
         THEN <<Ascii[16 * HexValue(s[2]) + HexValue(s[3]) - 31]>>
                  \o unquote_plus(SubSeq(s, 4, Len(s)))
    ELSE <<s[1]>> \o unquote_plus(Tail(s))

\* parse_qs(query).get(name, [None])[0]: the fields are separated by "&", a
\* field without "=" or with nothing after it is dropped
parse_qs_get(query, name) ==
    LET fields == Split(query, "&")
        eq(i) == Find(fields[i], "=")
        key(i) == unquote_plus(SubSeq(fields[i], 1, eq(i) - 1))
        val(i) == SubSeq(fields[i], eq(i) + 1, Len(fields[i]))
        hits == {i \in 1..Len(fields) : eq(i) > 0 /\ val(i) # <<>> /\ key(i) = name}
    IN  IF hits = {} THEN JNull
        ELSE JStr(unquote_plus(val(CHOOSE i \in hits : \A j \in hits : i <= j)))

(***************************************************************************)
(* Event Classifier.                                                       *)
(***************************************************************************)
bot_tokens ==
    { <<"b", "o", "t">>,
      <<"s", "p", "i", "d", "e", "r">>,
      <<"c", "r", "a", "w", "l">>,
      <<"s", "l", "u", "r", "p">>,
      <<"p", "h", "a", "n", "t", "o", "m">>,
      <<"h", "e", "a", "d", "l", "e", "s", "s">>,
      <<"p", "i", "n", "g", "d", "o", "m">> }

\* a plausible slip: the tokens are looked for without lower-casing the User-Agent
is_probably_bot_case_sensitive(user_agent) ==
    /\ user_agent # <<>>
    /\ \E token \in bot_tokens : Contains(user_agent, token)

is_probably_bot(user_agent) ==
    /\ user_agent # <<>>
    /\ LET lowered == Lower(user_agent)
       IN  \E token \in bot_tokens : Contains(lowered, token)

\* classify_traffic_source parses the URL and the referrer it is given with
\* urlparse before anything else: a truthy value that is not a str raises
\* AttributeError, a str with an unbalanced bracket raises ValueError.
urlparse_raises(value) ==
    Truthy(value) /\ (value.t # "str" \/ ~urlparse(value.s).ok)

classify_traffic_source_raises(url, referrer) ==
    urlparse_raises(url) \/ urlparse_raises(referrer)

\* SOCIAL_DOMAINS, lines 891-901
SOCIAL_DOMAINS ==
    { <<"f", "a", "c", "e", "b", "o", "o", "k", ".", "c", "o", "m">>,
      <<"i", "n", "s", "t", "a", "g", "r", "a", "m", ".", "c", "o", "m">>,
      <<"t", "w", "i", "t", "t", "e", "r", ".", "c", "o", "m">>,
      <<"t", ".", "c", "o">>,
      <<"l", "i", "n", "k", "e", "d", "i", "n", ".", "c", "o", "m">>,
      <<"y", "o", "u", "t", "u", "b", "e", ".", "c", "o", "m">>,
      <<"t", "i", "k", "t", "o", "k", ".", "c", "o", "m">>,
      <<"s", "n", "a", "p", "c", "h", "a", "t", ".", "c", "o", "m">>,
      <<"p", "i", "n", "t", "e", "r", "e", "s", "t", ".", "c", "o", "m">> }

\* SEARCH_DOMAINS, lines 903-912
SEARCH_DOMAINS ==
    { <<"g", "o", "o", "g", "l", "e", ".">>,
      <<"b", "i", "n", "g", ".">>,
      <<"y", "a", "h", "o", "o", ".">>,
      <<"d", "u", "c", "k", "d", "u", "c", "k", "g", "o", ".">>,
      <<"b", "a", "i", "d", "u", ".">>,
      <<"y", "a", "n", "d", "e", "x", ".">>,
      <<"a", "s", "k", ".", "c", "o", "m">>,
      <<"e", "c", "o", "s", "i", "a", ".", "o", "r", "g">> }

\* lines 1592-1596 and 1598-1602: lower case, without a leading "www." and
\* without what follows the first ":"
normalise_domain(netloc) ==
    LET lowered == Lower(netloc)
        bare == IF StartsWith(lowered, <<"w", "w", "w", ".">>)
                THEN SubSeq(lowered, 5, Len(lowered))
                ELSE lowered
    IN  IF bare = <<>> THEN bare ELSE Split(bare, ":")[1]

\* lines 1604-1615: the label of a utm_medium
medium_label(utm_medium) ==
    LET medium == Lower(utm_medium)
    IN  IF medium \in {<<"e", "m", "a", "i", "l">>, <<"n", "e", "w", "s", "l", "e", "t", "t", "e", "r">>}
        THEN <<"E", "m", "a", "i", "l">>
        ELSE IF medium \in {<<"c", "p", "c">>, <<"p", "p", "c">>, <<"p", "a", "i", "d">>,
                            <<"p", "a", "i", "d", "-", "s", "e", "a", "r", "c", "h">>}
        THEN <<"P", "a", "i", "d", " ", "S", "e", "a", "r", "c", "h">>
        ELSE IF medium \in {<<"s", "o", "c", "i", "a", "l">>, <<"p", "a", "i", "d", "-", "s", "o", "c", "i", "a", "l">>}
        THEN <<"P", "a", "i", "d", " ", "S", "o", "c", "i", "a", "l">>
        ELSE IF medium \in {<<"d", "i", "s", "p", "l", "a", "y">>, <<"b", "a", "n", "n", "e", "r">>}
        THEN <<"D", "i", "s", "p", "l", "a", "y">>
        ELSE Title(medium)

\* lines 1616-1626: the label of a referrer domain (None or a str) seen from host
referrer_label(referrer_domain, host) ==
    IF ~Truthy(referrer_domain) THEN <<"D", "i", "r", "e", "c", "t">>
    ELSE IF host # <<>> /\ EndsWith(referrer_domain.s, host) THEN <<"I", "n", "t", "e", "r", "n", "a", "l">>
    ELSE IF \E token \in SOCIAL_DOMAINS : Contains(referrer_domain.s, token)
    THEN <<"S", "o", "c", "i", "a", "l">>
    ELSE IF \E token \in SEARCH_DOMAINS : Contains(referrer_domain.s, token)
    THEN <<"O", "r", "g", "a", "n", "i", "c", " ", "S", "e", "a", "r", "c", "h">>
    ELSE <<"R", "e", "f", "e", "r", "r", "a", "l">>

\* lines 1577-1590: the first value of a query parameter of the url, or None
utm_parameter(url, name) ==
    IF Truthy(url) THEN parse_qs_get(urlparse(url.s).query, name) ELSE JNull

\* lines 1592-1596: the domain of the referrer, or None
referrer_domain_of(referrer) ==
    IF Truthy(referrer) THEN JStr(normalise_domain(urlparse(referrer.s).netloc))
    ELSE JNull

\* lines 1604-1628: the label and the returned dict, from the values parsed
classify_parsed(utm_source, utm_medium, utm_campaign, referrer_domain, host) ==
    [traffic_source |-> IF Truthy(utm_medium) THEN medium_label(utm_medium.s)
                        ELSE referrer_label(referrer_domain, host),
     utm_source |-> utm_source,
     utm_medium |-> utm_medium,
     utm_campaign |-> utm_campaign,
     referrer_domain |-> referrer_domain]

\* lines 1572-1628, for a url and a referrer that urlparse accepts
classify_traffic_source(url, referrer, host0) ==
    classify_parsed(utm_parameter(url, <<"u", "t", "m", "_", "s", "o", "u", "r", "c", "e">>),
                    utm_parameter(url, <<"u", "t", "m", "_", "m", "e", "d", "i", "u", "m">>),
                    utm_parameter(url, <<"u", "t", "m", "_", "c", "a", "m", "p", "a", "i", "g", "n">>),
                    referrer_domain_of(referrer),
                    normalise_domain(host0))

\* a plausible slip: the mobile test comes before the tablet test
device_of_mobile_first(ua) ==
    [device_type |->
         IF Contains(ua, <<"m", "o", "b", "i", "l", "e">>) \/ Contains(ua, <<"i", "p", "h", "o", "n", "e">>) \/ Contains(ua, <<"a", "n", "d", "r", "o", "i", "d">>)
         THEN <<"M", "o", "b", "i", "l", "e">>
         ELSE IF Contains(ua, <<"i", "p", "a", "d">>) \/ Contains(ua, <<"t", "a", "b", "l", "e", "t">>) THEN <<"T", "a", "b", "l", "e", "t">>
         ELSE <<"D", "e", "s", "k", "t", "o", "p">>,
     device_os |->
         IF Contains(ua, <<"w", "i", "n", "d", "o", "w", "s">>) THEN <<"W", "i", "n", "d", "o", "w", "s">>
         ELSE IF Contains(ua, <<"m", "a", "c", " ", "o", "s">>) \/ Contains(ua, <<"m", "a", "c", "i", "n", "t", "o", "s", "h">>) THEN <<"m", "a", "c", "O", "S">>
         ELSE IF Contains(ua, <<"i", "p", "h", "o", "n", "e">>) \/ Contains(ua, <<"i", "p", "a", "d">>) \/ Contains(ua, <<"i", "o", "s">>)
         THEN <<"i", "O", "S">>
         ELSE IF Contains(ua, <<"a", "n", "d", "r", "o", "i", "d">>) THEN <<"A", "n", "d", "r", "o", "i", "d">>
         ELSE IF Contains(ua, <<"l", "i", "n", "u", "x">>) THEN <<"L", "i", "n", "u", "x">>
         ELSE <<"O", "t", "h", "e", "r">>]

\* lines 1525-1539: the device of a lower-cased user agent
device_of(ua) ==
    [device_type |->
         IF Contains(ua, <<"i", "p", "a", "d">>) \/ Contains(ua, <<"t", "a", "b", "l", "e", "t">>) THEN <<"T", "a", "b", "l", "e", "t">>
         ELSE IF Contains(ua, <<"m", "o", "b", "i", "l", "e">>) \/ Contains(ua, <<"i", "p", "h", "o", "n", "e">>) \/ Contains(ua, <<"a", "n", "d", "r", "o", "i", "d">>)
         THEN <<"M", "o", "b", "i", "l", "e">>
         ELSE <<"D", "e", "s", "k", "t", "o", "p">>,
     device_os |->
         IF Contains(ua, <<"w", "i", "n", "d", "o", "w", "s">>) THEN <<"W", "i", "n", "d", "o", "w", "s">>
         ELSE IF Contains(ua, <<"m", "a", "c", " ", "o", "s">>) \/ Contains(ua, <<"m", "a", "c", "i", "n", "t", "o", "s", "h">>) THEN <<"m", "a", "c", "O", "S">>
         ELSE IF Contains(ua, <<"i", "p", "h", "o", "n", "e">>) \/ Contains(ua, <<"i", "p", "a", "d">>) \/ Contains(ua, <<"i", "o", "s">>)
         THEN <<"i", "O", "S">>
         ELSE IF Contains(ua, <<"a", "n", "d", "r", "o", "i", "d">>) THEN <<"A", "n", "d", "r", "o", "i", "d">>
         ELSE IF Contains(ua, <<"l", "i", "n", "u", "x">>) THEN <<"L", "i", "n", "u", "x">>
         ELSE <<"O", "t", "h", "e", "r">>]

\* lines 1520-1540
detect_device_details(user_agent) == device_of(Lower(user_agent))

\* line 1553: `"-" in language` raises TypeError for a number
extract_country_raises(language) == Truthy(language) /\ language.t # "str"

\* lines 1542-1556; headers are the values of CF-IPCountry, X-Appengine-Country
\* and X-Country-Code in this order (JNull when absent)
extract_country_from_headers(headers, language) ==
    LET usable == {i \in 1..Len(headers) :
                       Truthy(headers[i]) /\ headers[i].s # <<"X", "X">>}
    IN  IF usable # {} THEN Upper(headers[CHOOSE i \in usable : \A j \in usable : i <= j].s)
        ELSE IF Truthy(language) /\ Contains(language.s, <<"-">>)
        THEN Upper(Split(language.s, "-")[Len(Split(language.s, "-"))])
        ELSE <<"U", "n", "k", "n", "o", "w", "n">>

\* hashlib.sha256(text).hexdigest()[:32]: the digest is kept symbolic, as the
\* text it was computed from between braces; distinct texts give distinct digests.
sha256_hex32(text) == <<"{">> \o text \o <<"}">>

\* a value bound to a TEXT column is stored as text
TextColumn(j) ==
    CASE j.t = "null" -> JNull
      [] j.t = "str" -> j
      [] OTHER -> JStr(Decimal(j.n))

\* current_timestamp()
current_timestamp == now

\* lines 1558-1570; path is a str or None
extract_slug_from_path(path) ==
    IF ~Truthy(path) THEN JNull
    ELSE LET clean_path == Split(Split(path.s, "?")[1], "#")[1]
             stripped == StripChar(clean_path, "/")
             parts == Split(stripped, "/")
         IN  IF clean_path = <<"/">> THEN JStr(<<"h", "o", "m", "e">>)
             ELSE IF stripped = <<>> THEN JStr(<<"h", "o", "m", "e">>)
             ELSE IF parts[1] = <<"p", "a", "g", "e", "s">> /\ Len(parts) > 1 THEN JStr(parts[2])
             ELSE JStr(parts[Len(parts)])

(***************************************************************************)
(* Ingestion Endpoint: POST /analytics/track.                              *)
(* A request: is_json (the Content-Type is a JSON one), the headers        *)
(* Origin, User-Agent, Referer, X-Forwarded-For and the three country      *)
(* headers (JNull when absent), the host the site is served on, the peer   *)
(* address and the body.                                                   *)
(***************************************************************************)
Resp204 == [status |-> 204, body |-> ""]
Resp500 == [status |-> 500, body |-> "Internal Server Error"]

NoRow == [id |-> 0, visitor_id |-> JNull, session_id |-> JNull, page_slug |-> JNull,
          page_title |-> JNull, path |-> JNull, url |-> JNull, referrer |-> JNull,
          referrer_domain |-> JNull, traffic_source |-> JNull, utm_source |-> JNull,
          utm_medium |-> JNull, utm_campaign |-> JNull, device_type |-> JNull,
          device_os |-> JNull, language |-> JNull, country |-> JNull,
          timezone |-> JNull,
          is_session_start |-> 0, created_at |-> 0]

Discard == [resp |-> Resp204, insert |-> FALSE, row |-> NoRow]
Raise == [resp |-> Resp500, insert |-> FALSE, row |-> NoRow]

\* request.host_url: the scheme, the host and a closing slash
host_url(req) == <<"h", "t", "t", "p", ":", "/", "/">> \o req.host \o <<"/">>

\* request.get_json(silent=True) or {}
get_payload(req) ==
    IF req.body.kind = "object" THEN req.body
    ELSE IF req.body.kind = "value" /\ Truthy(req.body.val) THEN req.body
    ELSE BodyObject(<<>>)

\* lines 3872-3874
origin_rejected(req) ==
    /\ Truthy(req.origin)
    /\ ~StartsWith(req.origin.s, RStrip(host_url(req), "/"))

\* a plausible slip: the admin filter compares the whole path
admin_path_exact(path) == path = <<"/", "a", "d", "m", "i", "n">>

\* line 3878
admin_path(path) == StartsWith(path, <<"/", "a", "d", "m", "i", "n">>)

\* lines 3885-3888: the path of the page URL when no path was declared
parsed_path(parsed, path0) == IF parsed.ok THEN parsed.path ELSE path0

track_path(path0, url_value) ==
    IF path0 = <<>> /\ Truthy(url_value) /\ url_value.t = "str"
    THEN parsed_path(urlparse(url_value.s), path0)
    ELSE path0

\* a plausible slip: the time of receipt enters the digest of the visitor
track_visitor_id_timed(req, client_visitor, user_agent) ==
    IF Truthy(client_visitor) THEN client_visitor
    ELSE JStr(sha256_hex32((IF req.forwarded_for.t = "null" THEN req.remote_addr
                            ELSE req.forwarded_for.s) \o <<"|">> \o user_agent
                           \o <<"|">> \o Decimal(current_timestamp)))

\* lines 3896-3899: the visitor named by the client, or a digest of the peer
track_visitor_id(req, client_visitor, user_agent) ==
    IF Truthy(client_visitor) THEN client_visitor
    ELSE JStr(sha256_hex32((IF req.forwarded_for.t = "null" THEN req.remote_addr
                            ELSE req.forwarded_for.s) \o <<"|">> \o user_agent))

\* lines 3900-3903: the session named by the client, or a digest
track_session_id(payload, client_session, visitor_id) ==
    IF Truthy(client_session) THEN client_session
    ELSE JStr(sha256_hex32(Str(visitor_id) \o <<"|">>
                           \o Str(payload.obj["is_session_start"]) \o <<"|">>
                           \o Decimal(current_timestamp)))

\* lines 3905-3973: the row inserted, from the values computed before
track_row(next_id, payload, path, url_value, referrer_value, visitor_id, language, source, device, country) ==
    [id |-> next_id,
     visitor_id |-> TextColumn(visitor_id),
     session_id |-> TextColumn(track_session_id(payload, payload.obj["session_id"],
                                                visitor_id)),
     page_slug |-> TextColumn(Or(payload.obj["page_slug"],
                                 extract_slug_from_path(JStr(path)))),
     page_title |-> TextColumn(payload.obj["page_title"]),
     path |-> IF path = <<>> THEN JNull ELSE JStr(path),
     url |-> TextColumn(url_value),
     referrer |-> TextColumn(referrer_value),
     referrer_domain |-> source.referrer_domain,
     traffic_source |-> JStr(source.traffic_source),
     utm_source |-> source.utm_source,
     utm_medium |-> source.utm_medium,
     utm_campaign |-> source.utm_campaign,
     device_type |-> JStr(device.device_type),
     device_os |-> JStr(device.device_os),
     language |-> TextColumn(language),
     country |-> JStr(country),
     timezone |-> TextColumn(payload.obj["timezone"]),
     is_session_start |-> IF Truthy(payload.obj["is_session_start"]) THEN 1 ELSE 0,
     created_at |-> current_timestamp]

\* lines 3885-3973, once the request has passed the guards: the row, or the
\* exception that ends the request
track_record(req, payload, path0, user_agent, next_id) ==
    LET url_value == payload.obj["url"]
        referrer_value == Or(payload.obj["referrer"], req.referer)
        language == payload.obj["language"]
    IN  IF path0 = <<>> /\ Truthy(url_value) /\ url_value.t # "str" THEN Raise
        ELSE IF classify_traffic_source_raises(url_value, referrer_value) THEN Raise
        ELSE IF extract_country_raises(language) THEN Raise
        ELSE [resp |-> Resp204,
              insert |-> TRUE,
              row |-> track_row(next_id, payload, track_path(path0, url_value),
                                url_value, referrer_value,
                                track_visitor_id(req, payload.obj["visitor_id"], user_agent),
                                language,
                                classify_traffic_source(url_value, referrer_value, req.host),
                                detect_device_details(user_agent),
                                extract_country_from_headers(req.country_headers,
                                                             language))]

\* the whole handler
track_outcome(req, next_id) ==
    IF ~req.is_json THEN Discard
    ELSE IF origin_rejected(req) THEN Discard
    ELSE LET payload == get_payload(req)
         IN  IF payload.kind # "object" THEN Raise   \* payload.get: AttributeError
             ELSE LET path == Str(Or(payload.obj["path"], JStr(<<>>)))
                      user_agent == IF req.user_agent.t = "null" THEN <<>>
                                    ELSE req.user_agent.s
                  IN  IF admin_path(path) THEN Discard
                      ELSE IF is_probably_bot(user_agent) THEN Discard
                      ELSE track_record(req, payload, path, user_agent, next_id)

NoRequest ==
    [is_json |-> FALSE, origin |-> JNull, user_agent |-> JNull, referer |-> JNull,
     forwarded_for |-> JNull, country_headers |-> <<JNull, JNull, JNull>>,
     host |-> <<>>, remote_addr |-> <<>>, body |-> BodyMalformed]

\* a plausible slip: INSERT OR REPLACE keyed by the visitor, so that a later
\* beacon of a visitor overwrites the earlier row
analytics_track_upsert(req) ==
    /\ LET out == track_outcome(req, Len(events) + 1)
           same == {i \in 1..Len(events) : events[i].visitor_id = out.row.visitor_id}
       IN  /\ events' = IF ~out.insert THEN events
                        ELSE IF same = {} THEN Append(events, out.row)
                        ELSE [i \in 1..Len(events) |->
                                 IF i \in same THEN out.row ELSE events[i]]
           /\ track' = [served |-> TRUE, req |-> req, before |-> Len(events),
                        resp |-> out.resp]
    /\ UNCHANGED <<leads, now, report, calc, aside>>

analytics_track(req) ==
    /\ LET out == track_outcome(req, Len(events) + 1)
       IN  /\ events' = IF out.insert THEN Append(events, out.row) ELSE events
           /\ track' = [served |-> TRUE, req |-> req, before |-> Len(events),
                        resp |-> out.resp]
    /\ UNCHANGED <<leads, now, report, calc, aside>>

(***************************************************************************)
(* The requests the ingestion specification sends.                         *)
(***************************************************************************)
SiteHost == <<"s", "i", "t", "e", ".", "u", "k">>
PeerAddr == <<"1", "0", ".", "0", ".", "0", ".", "1">>
Browser == <<"M", "o", "z", "i", "l", "l", "a", "/", "5", ".", "0">>

Origins ==
    { JNull,
      JStr(<<>>),
      JStr(<<"h", "t", "t", "p", ":", "/", "/", "s", "i", "t", "e", ".", "u", "k">>),
      JStr(<<"h", "t", "t", "p", "s", ":", "/", "/", "s", "i", "t", "e", ".", "u", "k">>),
      JStr(<<"h", "t", "t", "p", ":", "/", "/", "e", "v", "i", "l", ".", "i", "o">>),
      JStr(<<"h", "t", "t", "p", ":", "/", "/", "s", "i", "t", "e", ".", "u", "k", ".",
             "e", "v", "i", "l", ".", "i", "o">>) }

UserAgents ==
    { JNull,
      JStr(<<>>),
      JStr(Browser),
      JStr(<<"B", "o", "a", "t", "/", "1">>),
      JStr(<<"G", "o", "o", "g", "l", "e", "B", "o", "t", "/", "2", ".", "1">>),
      JStr(<<"B", "a", "i", "d", "u", "S", "P", "I", "D", "E", "R">>),
      JStr(<<"w", "e", "b", "C", "r", "a", "w", "l", "e", "r">>),
      JStr(<<"Y", "a", "h", "o", "o", "!", " ", "S", "l", "u", "r", "p">>),
      JStr(<<"P", "h", "a", "n", "t", "o", "m", "J", "S">>),
      JStr(<<"H", "e", "a", "d", "l", "e", "s", "s", "C", "h", "r", "o", "m", "e">>),
      JStr(<<"P", "i", "n", "g", "d", "o", "m", ".", "c", "o", "m">>) }

Paths ==
    { JNull,
      JStr(<<>>),
      JNum(5),
      JStr(<<"/">>),
      JStr(<<"/", "c", "o", "u", "r", "s", "e", "s">>),
      JStr(<<"/", "a", "d", "m", "i", "n">>),
      JStr(<<"/", "a", "d", "m", "i", "n", "/", "x">>),
      JStr(<<"/", "a", "d", "m", "i", "n", "i", "s", "t", "r", "a", "t", "o", "r">>),
      JStr(<<"/", "A", "d", "m", "i", "n">>) }

Urls ==
    { JNum(5),
      JStr(<<"h", "t", "t", "p", ":", "/", "/", "s", "i", "t", "e", ".", "u", "k", "/",
             "a", "d", "m", "i", "n", "/", "x">>),
      JStr(<<"h", "t", "t", "p", ":", "/", "/", "s", "i", "t", "e", ".", "u", "k", "/",
             "c", "o", "u", "r", "s", "e", "s", "?", "a", "=", "1", "#", "f">>),
      JStr(<<"h", "t", "t", "p", ":", "/", "/", "[", "b", "a", "d">>) }

Referrers ==
    { JNum(5),
      JStr(<<"h", "t", "t", "p", ":", "/", "/", "t", ".", "c", "o", "/", "x">>) }

\* the bodies: unparseable text, JSON values that are not objects, objects
Bodies ==
    {BodyMalformed}
    \cup {BodyValue(j) : j \in {JNull, JBool(FALSE), JBool(TRUE), JNum(0), JNum(5),
                                JStr(<<>>), JStr(<<"x">>), JList(0), JList(1)}}
    \cup {BodyObject([path |-> p]) : p \in Paths}
    \cup {BodyObject([url |-> u]) : u \in Urls}
    \cup {BodyObject([path |-> JStr(<<"/">>), url |-> u]) : u \in Urls}
    \cup {BodyObject([path |-> JStr(<<"/">>), referrer |-> r]) : r \in Referrers}
    \cup {BodyObject([path |-> JStr(<<"/">>), visitor_id |-> JStr(<<"v", "1">>),
                      session_id |-> JStr(<<"s", "1">>), is_session_start |-> JBool(TRUE)])}

Request(is_json, origin, user_agent, body) ==
    [is_json |-> is_json, origin |-> origin, user_agent |-> user_agent, referer |-> JNull,
     forwarded_for |-> JNull, country_headers |-> <<JNull, JNull, JNull>>,
     host |-> SiteHost, remote_addr |-> PeerAddr, body |-> body]

RootBeacon == BodyObject([path |-> JStr(<<"/">>)])

TrackRequests ==
    {Request(j, JNull, JStr(Browser), b) : j \in BOOLEAN, b \in Bodies}
    \cup {Request(TRUE, o, JStr(Browser), b) :
            o \in Origins, b \in {RootBeacon, BodyMalformed, BodyValue(JList(1))}}
    \cup {Request(TRUE, JNull, u, b) :
            u \in UserAgents, b \in {RootBeacon, BodyMalformed, BodyValue(JList(1))}}

(***************************************************************************)
(* Aggregation Engine and Reporting Endpoint: GET /admin/analytics.        *)
(***************************************************************************)
\* the length of the "day" of SQLite's datetime('now', '-N day'), in seconds
Day == 86400

\* allowed_ranges, line 4282
allowed_ranges == {7, 30, 60, 90, 180}

Whitespace == {" ", "\t", "\n", "\r"}

\* str.strip()
RECURSIVE Strip(_)
Strip(s) ==
    IF s # <<>> /\ s[1] \in Whitespace THEN Strip(Tail(s))
    ELSE IF s # <<>> /\ s[Len(s)] \in Whitespace THEN Strip(SubSeq(s, 1, Len(s) - 1))
    ELSE s

DigitValue(c) == (CHOOSE i \in 1..10 : Digits[i] = c) - 1

\* the value of a run of digits and underscores
RECURSIVE DigitsValue(_, _)
DigitsValue(d, acc) ==
    IF d = <<>> THEN acc
    ELSE IF d[1] = "_" THEN DigitsValue(Tail(d), acc)
    ELSE DigitsValue(Tail(d), 10 * acc + DigitValue(d[1]))

\* int(text): surrounding whitespace, one sign, digits with single underscores
\* between them; ok = FALSE is the ValueError
int(text) ==
    LET t == Strip(text)
        signed == t # <<>> /\ t[1] \in {"+", "-"}
        d == IF signed THEN Tail(t) ELSE t
        wellFormed ==
            /\ d # <<>>
            /\ \A i \in 1..Len(d) :
                 \/ d[i] \in Range(Digits)
                 \/ /\ d[i] = "_"
                    /\ 1 < i /\ i < Len(d)
                    /\ d[i - 1] \in Range(Digits) /\ d[i + 1] \in Range(Digits)
        v == IF wellFormed THEN DigitsValue(d, 0) ELSE 0
    IN  [ok |-> wellFormed, v |-> IF signed /\ t[1] = "-" THEN -v ELSE v]

\* a plausible slip: the parsed number is used without the allow-list test
range_days_unchecked(arg) ==
    LET parsed == int(IF arg.t = "null" THEN <<"3", "0">> ELSE arg.s)
    IN  IF parsed.ok THEN parsed.v ELSE 30

\* lines 4282-4288: the range query parameter (JNull when missing) normalised
range_days_of(arg) ==
    LET parsed == int(IF arg.t = "null" THEN <<"3", "0">> ELSE arg.s)
        range_days == IF parsed.ok THEN parsed.v ELSE 30
    IN  IF range_days \in allowed_ranges THEN range_days ELSE 30

\* a plausible slip: the window is open at its lower end
in_current_window_strict(row, t, range_days) ==
    row.created_at > t - range_days * Day

\* WHERE datetime(created_at) >= datetime('now', '-N day'), evaluated at time t
in_current_window(row, t, range_days) ==
    row.created_at >= t - range_days * Day

\* WHERE datetime(created_at) >= datetime('now', '-2N day')
\*   AND datetime(created_at) < datetime('now', '-N day'), evaluated at time t
in_previous_window(row, t, range_days) ==
    /\ row.created_at >= t - 2 * range_days * Day
    /\ row.created_at < t - range_days * Day

\* round half to even of the fraction a / b, b > 0
RoundHalfEven(a, b) ==
    LET q == a \div b
        r == a % b
    IN  IF 2 * r < b THEN q
        ELSE IF 2 * r > b THEN q + 1
        ELSE IF q % 2 = 0 THEN q ELSE q + 1

NoChange == [kind |-> "none", tenths |-> 0]

\* a plausible slip: the guard and the division use current instead of previous
compute_percent_change_by_current(current, previous) ==
    IF current.t = "null" \/ current.n = 0 THEN NoChange
    ELSE IF previous.t = "null" THEN NoChange
    ELSE [kind |-> "value",
          tenths |-> IF current.n > 0
                     THEN RoundHalfEven((current.n - previous.n) * 1000, current.n)
                     ELSE RoundHalfEven((previous.n - current.n) * 1000, -current.n)]

\* lines 1630-1637.  The arguments are numbers in a common unit (JNull is None);
\* the result is None or a number of tenths of a percent: round(change, 1).
\* float(None) raises TypeError, which the function catches.
compute_percent_change(current, previous) ==
    IF previous.t = "null" \/ previous.n = 0 THEN NoChange
    ELSE IF current.t = "null" THEN NoChange
    ELSE [kind |-> "value",
          tenths |-> IF previous.n > 0
                     THEN RoundHalfEven((current.n - previous.n) * 1000, previous.n)
                     ELSE RoundHalfEven((previous.n - current.n) * 1000, -previous.n)]

\* the rows of analytics_events that a query running at time t finds in the
\* current and in the previous window
current_ids(t, range_days) ==
    {i \in 1..Len(events) : in_current_window(events[i], t, range_days)}

previous_ids(t, range_days) ==
    {i \in 1..Len(events) : in_previous_window(events[i], t, range_days)}

\* COUNT(DISTINCT column) over the rows ids: NULL is not counted
count_distinct(ids, column) ==
    Cardinality({events[i][column] : i \in ids} \ {JNull})

\* SELECT columns, COUNT(*) AS visits ... GROUP BY columns over the rows ids:
\* one row per combination of values, NULL being a value of its own
group_counts(ids, columns) ==
    LET key(i) == [k \in 1..Len(columns) |-> events[i][columns[k]]]
    IN  { [key |-> g, visits |-> Cardinality({i \in ids : key(i) = g})] :
            g \in {key(i) : i \in ids} }

\* ORDER BY visits DESC LIMIT n: n rows that no row left out exceeds
limit_rows(rows, n) ==
    IF Cardinality(rows) <= n THEN rows
    ELSE CHOOSE kept \in SUBSET rows :
             /\ Cardinality(kept) = n
             /\ \A r \in kept, q \in rows \ kept : r.visits >= q.visits

\* round((part / whole) * 100, 1) if whole else 0.0, in tenths of a percent
percent_of(part, whole) ==
    IF whole # 0 THEN RoundHalfEven(part * 1000, whole) ELSE 0

\* the share column of a breakdown table: round((visits / page_views) * 100, 1)
\* if page_views else 0.0, in tenths of a percent
with_share(rows, page_views) ==
    { [key |-> r.key, visits |-> r.visits, share |-> percent_of(r.visits, page_views)] :
        r \in rows }

\* the sessions of the rows ids with their numbers of views, and the summary
\* SUM(CASE WHEN views = 1 THEN 1 ELSE 0 END), COUNT(*) over them
session_summary_of(ids) ==
    LET grouped == group_counts(ids, <<"session_id">>)
    IN  [single_page_sessions |-> Cardinality({g \in grouped : g.visits = 1}),
         total_sessions |-> Cardinality(grouped)]

\* SELECT visitor_id, MIN(datetime(created_at)) AS first_seen ... GROUP BY visitor_id
first_seen(visitor_id) ==
    LET own == {i \in 1..Len(events) : events[i].visitor_id = visitor_id}
    IN  events[CHOOSE i \in own : \A j \in own :
                   events[i].created_at <= events[j].created_at].created_at

\* lines 4440-4447; change is None or a number of tenths
trend_direction(change) ==
    IF change.kind = "none" THEN "neutral"
    ELSE IF change.tenths > 0 THEN "up"
    ELSE IF change.tenths < 0 THEN "down"
    ELSE "neutral"

\* a plausible slip: the direction is taken from the change as it is, the
\* inversion for metrics that should fall is forgotten
build_card_no_invert(label, value, prev_value, invert) ==
    LET change == compute_percent_change(JNum(value), JNum(prev_value))
    IN  [label |-> label, value |-> value, prev_value |-> prev_value, invert |-> invert,
         trend |-> change, trend_direction |-> trend_direction(change)]

\* lines 4449-4468; value and prev_value are numbers in one unit.  prev_value
\* and invert are the arguments of the call, kept beside the card.
build_card(label, value, prev_value, invert) ==
    LET change == compute_percent_change(JNum(value), JNum(prev_value))
        direction_basis == IF change.kind = "value" /\ invert
                           THEN [kind |-> "value", tenths |-> -change.tenths]
                           ELSE change
    IN  [label |-> label, value |-> value, prev_value |-> prev_value, invert |-> invert,
         trend |-> change, trend_direction |-> trend_direction(direction_basis)]

\* the locals of an admin_analytics request.  The fields named x_at, x_rows
\* and x_leads record when a step ran and what the tables held then.
ReportIdle ==
    [pc |-> "idle", arg |-> JNull, range_days |-> 30,
     begin_rows |-> 0, begin_leads |-> 0, begin_at |-> 0,
     page_views |-> 0, unique_visitors |-> 0, sessions |-> 0,
     totals_at |-> 0, totals_rows |-> 0,
     prev_page_views |-> 0, prev_unique_visitors |-> 0, prev_sessions |-> 0,
     previous_at |-> 0, previous_rows |-> 0,
     single_page_sessions |-> 0, total_sessions |-> 0, bounce_rate |-> 0,
     prev_bounce_rate |-> 0,
     lead_count |-> 0, conversion_rate |-> 0, prev_conversion_rate |-> 0,
     new_visitors |-> 0, returning_visitors |-> 0, new_visitor_rate |-> 0,
     prev_new_visitor_rate |-> 0,
     page_views_trend |-> NoChange, kpi_cards |-> <<>>,
     daily_page_views |-> <<>>, hourly_values |-> <<>>,
     device_table |-> {}, os_table |-> {}, traffic_table |-> {},
     top_countries |-> {}, referrer_rows |-> {}, timezone_rows |-> {},
     top_pages |-> {}]

\* lines 4281-4293: the request arrives with its range parameter
admin_analytics_begin(arg) ==
    /\ report.pc \in {"idle", "done"}
    /\ report' = [ReportIdle EXCEPT !.pc = "totals", !.arg = arg,
                                    !.range_days = range_days_of(arg),
                                    !.begin_rows = Len(events),
                                    !.begin_leads = Len(leads),
                                    !.begin_at = now]
    /\ UNCHANGED <<events, leads, now, track, calc, aside>>

\* lines 4295-4305 and 4320-4322: the totals of the current window
admin_analytics_totals ==
    /\ report.pc = "totals"
    /\ LET matched == current_ids(now, report.range_days)
       IN  report' = [report EXCEPT !.pc = "previous_totals",
                                    !.page_views = Cardinality(matched),
                                    !.unique_visitors = count_distinct(matched, "visitor_id"),
                                    !.sessions = count_distinct(matched, "session_id"),
                                    !.totals_at = now,
                                    !.totals_rows = Len(events)]
    /\ UNCHANGED <<events, leads, now, track, calc, aside>>

\* lines 4307-4318 and 4324-4326: the totals of the previous window
admin_analytics_previous_totals ==
    /\ report.pc = "previous_totals"
    /\ LET matched == previous_ids(now, report.range_days)
       IN  report' = [report EXCEPT !.pc = "session_summary",
                                    !.prev_page_views = Cardinality(matched),
                                    !.prev_unique_visitors = count_distinct(matched, "visitor_id"),
                                    !.prev_sessions = count_distinct(matched, "session_id"),
                                    !.previous_at = now,
                                    !.previous_rows = Len(events)]
    /\ UNCHANGED <<events, leads, now, track, calc, aside>>

\* lines 4328-4341 and 4359-4361: the bounce rate of the current window
admin_analytics_session_summary ==
    /\ report.pc = "session_summary"
    /\ LET summary == session_summary_of(current_ids(now, report.range_days))
       IN  report' = [report EXCEPT !.pc = "previous_session_summary",
                                    !.single_page_sessions = summary.single_page_sessions,
                                    !.total_sessions = summary.total_sessions,
                                    !.bounce_rate = percent_of(summary.single_page_sessions,
                                                               summary.total_sessions)]
    /\ UNCHANGED <<events, leads, now, track, calc, aside>>

\* lines 4343-4357 and 4363-4369: the bounce rate of the previous window
admin_analytics_previous_session_summary ==
    /\ report.pc = "previous_session_summary"
    /\ LET summary == session_summary_of(previous_ids(now, report.range_days))
       IN  report' = [report EXCEPT !.pc = "lead_row",
                                    !.prev_bounce_rate = percent_of(summary.single_page_sessions,
                                                                    summary.total_sessions)]
    /\ UNCHANGED <<events, leads, now, track, calc, aside>>

\* lines 4374-4383: the leads of the current window and the conversion rate
admin_analytics_lead_row ==
    /\ report.pc = "lead_row"
    /\ LET matched == {i \in 1..Len(leads) :
                           in_current_window(leads[i], now, report.range_days)}
       IN  report' = [report EXCEPT !.pc = "prev_lead_row",
                                    !.lead_count = Cardinality(matched),
                                    !.conversion_rate = percent_of(Cardinality(matched),
                                                                   report.sessions)]
    /\ UNCHANGED <<events, leads, now, track, calc, aside>>

\* lines 4385-4399: the leads of the previous window
admin_analytics_prev_lead_row ==
    /\ report.pc = "prev_lead_row"
    /\ LET matched == {i \in 1..Len(leads) :
                           in_previous_window(leads[i], now, report.range_days)}
       IN  report' = [report EXCEPT !.pc = "new_visitors_row",
                                    !.prev_conversion_rate = percent_of(Cardinality(matched),
                                                                        report.prev_sessions)]
    /\ UNCHANGED <<events, leads, now, track, calc, aside>>

\* lines 4401-4415: the visitors first seen in the current window
admin_analytics_new_visitors_row ==
    /\ report.pc = "new_visitors_row"
    /\ LET visitors == {events[i].visitor_id : i \in 1..Len(events)}
           fresh == {v \in visitors : first_seen(v) >= now - report.range_days * Day}
           new_visitors == Cardinality(fresh)
       IN  report' = [report EXCEPT !.pc = "prev_new_visitors_row",
                                    !.new_visitors = new_visitors,
                                    !.returning_visitors =
                                        IF report.unique_visitors - new_visitors > 0
                                        THEN report.unique_visitors - new_visitors ELSE 0,
                                    !.new_visitor_rate = percent_of(new_visitors,
                                                                    report.unique_visitors)]
    /\ UNCHANGED <<events, leads, now, track, calc, aside>>

\* lines 4417-4435: the visitors first seen in the previous window
admin_analytics_prev_new_visitors_row ==
    /\ report.pc = "prev_new_visitors_row"
    /\ LET visitors == {events[i].visitor_id : i \in 1..Len(events)}
           fresh == {v \in visitors :
                         /\ first_seen(v) >= now - 2 * report.range_days * Day
                         /\ first_seen(v) < now - report.range_days * Day}
       IN  report' = [report EXCEPT !.pc = "cards",
                                    !.prev_new_visitor_rate =
                                        percent_of(Cardinality(fresh),
                                                   report.prev_unique_visitors)]
    /\ UNCHANGED <<events, leads, now, track, calc, aside>>

\* lines 4371-4372 and 4437-4485: the KPI cards.  Counts are whole numbers,
\* rates and daily averages tenths, pages per session hundredths.
admin_analytics_cards ==
    /\ report.pc = "cards"
    /\ LET per_session(views, sessions) ==
               IF sessions # 0 THEN RoundHalfEven(views * 100, sessions) ELSE 0
           per_day(views) == RoundHalfEven(views * 10, report.range_days)
           cards ==
             << build_card("Page Views", report.page_views, report.prev_page_views, FALSE),
                build_card("Sessions", report.sessions, report.prev_sessions, FALSE),
                build_card("Unique Visitors", report.unique_visitors,
                           report.prev_unique_visitors, FALSE),
                build_card("Bounce Rate", report.bounce_rate, report.prev_bounce_rate, TRUE),
                build_card("Pages / Session",
                           per_session(report.page_views, report.sessions),
                           per_session(report.prev_page_views, report.prev_sessions), FALSE),
                build_card("Lead Conversion", report.conversion_rate,
                           report.prev_conversion_rate, FALSE),
                build_card("New Visitor Share", report.new_visitor_rate,
                           report.prev_new_visitor_rate, FALSE),
                build_card("Avg Daily Views", per_day(report.page_views),
                           per_day(report.prev_page_views), FALSE) >>
       IN  report' = [report EXCEPT !.pc = "daily_rows",
                                    !.kpi_cards = cards,
                                    !.page_views_trend = cards[1].trend]
    /\ UNCHANGED <<events, leads, now, track, calc, aside>>

\* DATE(created_at) and strftime("%Y-%m-%d"): the calendar day of an instant
date_of(t) == t \div Day

\* STRFTIME('%H', created_at): the hour of the day of an instant
hour_of(t) == (t % Day) \div 3600

\* lines 4487-4526: the daily chart, of which the page_views series is kept:
\* one entry for each of the range_days calendar days that end today (now_utc
\* minus offset days, offset from range_days - 1 down to 0), the COUNT(*) of
\* the day's group or 0
admin_analytics_daily_rows ==
    /\ report.pc = "daily_rows"
    /\ LET matched == current_ids(now, report.range_days)
           views(day) == Cardinality({i \in matched : date_of(events[i].created_at) = day})
       IN  report' = [report EXCEPT !.pc = "hourly_rows",
                                    !.daily_page_views =
                                        [k \in 1..report.range_days |->
                                            views(date_of(now - (report.range_days - k) * Day))]]
    /\ UNCHANGED <<events, leads, now, track, calc, aside>>

\* lines 4528-4542: the hourly chart, 24 values
admin_analytics_hourly_rows ==
    /\ report.pc = "hourly_rows"
    /\ LET matched == current_ids(now, report.range_days)
       IN  report' = [report EXCEPT !.pc = "device_rows",
                                    !.hourly_values =
                                        [k \in 1..24 |->
                                            Cardinality({i \in matched :
                                                hour_of(events[i].created_at) = k - 1})]]
    /\ UNCHANGED <<events, leads, now, track, calc, aside>>

\* lines 4544-4554 and 4717-4724: the device-type breakdown
admin_analytics_device_rows ==
    /\ report.pc = "device_rows"
    /\ LET rows == group_counts(current_ids(now, report.range_days), <<"device_type">>)
       IN  report' = [report EXCEPT !.pc = "os_rows",
                                    !.device_table = with_share(rows, report.page_views)]
    /\ UNCHANGED <<events, leads, now, track, calc, aside>>

\* lines 4560-4570 and 4726-4733: the operating-system breakdown
admin_analytics_os_rows ==
    /\ report.pc = "os_rows"
    /\ LET rows == group_counts(current_ids(now, report.range_days), <<"device_os">>)
       IN  report' = [report EXCEPT !.pc = "traffic_rows",
                                    !.os_table = with_share(rows, report.page_views)]
    /\ UNCHANGED <<events, leads, now, track, calc, aside>>

\* lines 4572-4582 and 4735-4742: the traffic-source breakdown
admin_analytics_traffic_rows ==
    /\ report.pc = "traffic_rows"
    /\ LET rows == group_counts(current_ids(now, report.range_days), <<"traffic_source">>)
       IN  report' = [report EXCEPT !.pc = "country_rows",
                                    !.traffic_table = with_share(rows, report.page_views)]
    /\ UNCHANGED <<events, leads, now, track, calc, aside>>

\* lines 4588-4600 and 4690-4698: the top 10 countries
admin_analytics_country_rows ==
    /\ report.pc = "country_rows"
    /\ LET rows == group_counts(current_ids(now, report.range_days), <<"country">>)
       IN  report' = [report EXCEPT !.pc = "referrer_rows",
                                    !.top_countries =
                                        with_share(limit_rows(rows, 10), report.page_views)]
    /\ UNCHANGED <<events, leads, now, track, calc, aside>>

\* COALESCE(NULLIF(referrer_domain, ''), traffic_source) AS domain
referrer_key(row) ==
    IF row.referrer_domain.t = "str" /\ row.referrer_domain.s # <<>>
    THEN <<row.referrer_domain, row.traffic_source>>
    ELSE <<row.traffic_source, row.traffic_source>>

\* lines 4606-4619: the top 10 referrers, grouped by domain and traffic source
admin_analytics_referrer_rows ==
    /\ report.pc = "referrer_rows"
    /\ LET matched == current_ids(now, report.range_days)
           rows == { [key |-> g,
                      visits |-> Cardinality({i \in matched : referrer_key(events[i]) = g})] :
                         g \in {referrer_key(events[i]) : i \in matched} }
       IN  report' = [report EXCEPT !.pc = "timezone_rows",
                                    !.referrer_rows = limit_rows(rows, 10)]
    /\ UNCHANGED <<events, leads, now, track, calc, aside>>

\* lines 4621-4632: the top 8 timezones
admin_analytics_timezone_rows ==
    /\ report.pc = "timezone_rows"
    /\ LET rows == group_counts(current_ids(now, report.range_days), <<"timezone">>)
       IN  report' = [report EXCEPT !.pc = "top_pages_rows",
                                    !.timezone_rows = limit_rows(rows, 8)]
    /\ UNCHANGED <<events, leads, now, track, calc, aside>>

\* lines 4635-4650 and 4668-4774: the top 10 pages, and the response
admin_analytics_top_pages_rows ==
    /\ report.pc = "top_pages_rows"
    /\ LET rows == group_counts(current_ids(now, report.range_days),
                                <<"page_slug", "page_title", "path">>)
       IN  report' = [report EXCEPT !.pc = "done",
                                    !.top_pages =
                                        with_share(limit_rows(rows, 10), report.page_views)]
    /\ UNCHANGED <<events, leads, now, track, calc, aside>>

\* lines 3190-3208: a lead is captured (contact form, booking, subscription)
create_lead ==
    /\ leads' = Append(leads, [status |-> "New", created_at |-> current_timestamp])
    /\ UNCHANGED <<events, now, track, report, calc, aside>>

\* the server clock advances by d seconds
tick(d) ==
    /\ now' = now + d
    /\ UNCHANGED <<events, leads, track, report, calc, aside>>

(***************************************************************************)
(* The ingestion specification: beacons arrive one after the other.        *)
(***************************************************************************)
CalcNone == [fn |-> "none", current |-> JNull, previous |-> JNull, result |-> NoChange]

MaxRequests == 2    \* requests served step by step at the same time

MaxCalls == 2       \* calls of get_db in one request

\* a request not yet received: no application context, nothing in flask.g
RequestIdle ==
    [pc |-> "idle", db |-> 0, calls |-> 0, since |-> 0, row |-> NoRow, resp |-> Resp204]

Init ==
    /\ events = <<>>
    /\ leads = <<>>
    /\ now = 0
    /\ track = [served |-> FALSE, req |-> NoRequest, before |-> 0, resp |-> Resp204]
    /\ report = ReportIdle
    /\ calc = CalcNone
    /\ requests = [r \in 1..MaxRequests |-> RequestIdle]
    /\ connections = <<>>
    /\ prospectus_versions = [rows |-> {}, seq |-> 0]

Beacon == \E req \in TrackRequests : Len(events) < MaxEvents /\ analytics_track(req)

NextTrack == Beacon

SpecTrack == Init /\ [][NextTrack]_vars

(***************************************************************************)
(* The reporting specification: beacons, the clock and a report whose      *)
(* queries are separate steps, so that the clock may advance and beacons   *)
(* may be recorded between two of them.                                    *)
(***************************************************************************)
MaxStored == 4      \* rows the store may hold in the reporting specification
MaxSeconds == 1     \* one-second ticks of the clock within a day
MaxWeeks == 2       \* seven-day jumps of the clock
MaxDuring == 1      \* beacons, leads and seconds while one report is running

\* A behaviour follows the store up to one report and through it: a later
\* report starts from fresh locals, and no report changes the store.  A beacon
\* or a lead is served and a second passes before the report, or as one of
\* the few that happen while the report is running its queries.
before_report == report.pc = "idle"

during_report == report.pc \notin {"idle", "done"}

may_serve ==
    \/ before_report
    \/ /\ during_report
       /\ (Len(events) - report.begin_rows) + (Len(leads) - report.begin_leads)
              + (now - report.begin_at) < MaxDuring

BotAgent == <<"G", "o", "o", "g", "l", "e", "B", "o", "t", "/", "2", ".", "1">>

ReportRequests == { Request(TRUE, JNull, JStr(Browser), RootBeacon) }

ReportArgs == { JNull, JStr(<<"7">>) }

ReportBeacon ==
    \E req \in ReportRequests :
        Len(events) < MaxStored /\ may_serve /\ analytics_track(req)

\* Seconds pass at any time; the clock jumps by a week only between requests
\* (no request lasts a week).
Tick ==
    \/ now % Day < MaxSeconds /\ may_serve /\ tick(1)
    \/ /\ now \div (7 * Day) < MaxWeeks
       /\ before_report
       /\ tick(7 * Day)

\* the queries of a report after the first, in the order of the code
ReportQueries ==
    \/ admin_analytics_totals
    \/ admin_analytics_previous_totals
    \/ admin_analytics_session_summary
    \/ admin_analytics_previous_session_summary
    \/ admin_analytics_lead_row
    \/ admin_analytics_prev_lead_row
    \/ admin_analytics_new_visitors_row
    \/ admin_analytics_prev_new_visitors_row
    \/ admin_analytics_cards
    \/ admin_analytics_daily_rows
    \/ admin_analytics_hourly_rows
    \/ admin_analytics_device_rows
    \/ admin_analytics_os_rows
    \/ admin_analytics_traffic_rows
    \/ admin_analytics_country_rows
    \/ admin_analytics_referrer_rows
    \/ admin_analytics_timezone_rows
    \/ admin_analytics_top_pages_rows

Report ==
    \/ \E arg \in ReportArgs : before_report /\ admin_analytics_begin(arg)
    \/ ReportQueries

NextReport == ReportBeacon \/ Tick \/ Report

SpecReport == Init /\ [][NextReport]_vars

(***************************************************************************)
(* The store specification: accepted and rejected beacons, leads, seconds  *)
(* and the queries of a report, in any order.                              *)
(***************************************************************************)
MaxRows == 2        \* rows the store may hold in the store specification
MaxLeads == 1       \* leads captured

StoreRequests ==
    { Request(TRUE, JNull, JStr(Browser), RootBeacon),
      Request(TRUE, JNull, JStr(BotAgent), RootBeacon),
      Request(TRUE, JNull, JStr(Browser),
              BodyObject([path |-> JStr(<<"/", "a", "d", "m", "i", "n">>)])),
      Request(TRUE, JNull, JStr(Browser), BodyValue(JList(1))) }

StoreBeacon ==
    \E req \in StoreRequests :
        Len(events) < MaxRows /\ may_serve /\ analytics_track(req)

Lead == Len(leads) < MaxLeads /\ may_serve /\ create_lead

Second == now < MaxSeconds /\ may_serve /\ tick(1)

NextStore == StoreBeacon \/ Lead \/ Second \/ Report

SpecStore == Init /\ [][NextStore]_vars

(***************************************************************************)
(* The range specification: reports asked with every kind of range         *)
(* parameter, over a store that beacons fill.                               *)
(***************************************************************************)
RangeArgs ==
    { JNull,
      JStr(<<>>),
      JStr(<<"a", "b", "c">>),
      JStr(<<"7">>),
      JStr(<<"3", "0">>),
      JStr(<<"6", "0">>),
      JStr(<<"9", "0">>),
      JStr(<<"1", "8", "0">>),
      JStr(<<"4", "5">>),
      JStr(<<"0">>),
      JStr(<<"3", "6", "5">>),
      JStr(<<"-", "7">>),
      JStr(<<"+", "7">>),
      JStr(<<" ", "7", " ">>),
      JStr(<<"0", "0", "7">>),
      JStr(<<"6", "_", "0">>),
      JStr(<<"7", ".", "0">>),
      JStr(<<"7", "d">>),
      JStr(<<"1", "e", "2">>) }

RangeReport ==
    \/ \E arg \in RangeArgs : before_report /\ admin_analytics_begin(arg)
    \/ ReportQueries

NextRange == ReportBeacon \/ RangeReport

SpecRange == Init /\ [][NextRange]_vars

(***************************************************************************)
(* The percent-change specification: compute_percent_change called with    *)
(* numbers and None.                                                       *)
(***************************************************************************)
MaxOperand == 6     \* the operands range over -MaxOperand..MaxOperand

Operands == {JNull} \cup {JNum(n) : n \in (-MaxOperand)..MaxOperand}

percent_change_call(current, previous) ==
    /\ calc' = [fn |-> "compute_percent_change", current |-> current,
                previous |-> previous,
                result |-> compute_percent_change(current, previous)]
    /\ UNCHANGED <<events, leads, now, track, report, aside>>

NextPercent == \E current \in Operands, previous \in Operands :
                   percent_change_call(current, previous)

SpecPercent == Init /\ [][NextPercent]_vars

(***************************************************************************)
(* The beacon specification: page-view beacons as browsers and scripts     *)
(* send them, with and without a Referer header, a declared path, a page   *)
(* URL, a language.                                                         *)
(***************************************************************************)
MaxBeacons == 2     \* rows the store may hold in the beacon specification

MobileAgent ==
    <<"M", "o", "z", "i", "l", "l", "a", "/", "5", ".", "0", " ", "(", "i", "P", "h", "o", "n", "e", ";", " ", "C", "P", "U", " ", "i", "P", "h", "o", "n", "e", " ", "O", "S", " ", "1", "7", "_", "0", " ", "l", "i", "k", "e", " ", "M", "a", "c", " ", "O", "S", " ", "X", ")", " ", "M", "o", "b", "i", "l", "e">>

ExampleUrl ==
    <<"h", "t", "t", "p", "s", ":", "/", "/", "s", "i", "t", "e", ".", "e", "x", "a", "m", "p", "l", "e", "/", "c", "o", "u", "r", "s", "e", "s", "?",
      "u", "t", "m", "_", "s", "o", "u", "r", "c", "e", "=", "n", "e", "w", "s", "l", "e", "t", "t", "e", "r", "&",
      "u", "t", "m", "_", "m", "e", "d", "i", "u", "m", "=", "e", "m", "a", "i", "l">>

BeaconReferers ==
    { JNull,
      JStr(<<"h", "t", "t", "p", ":", "/", "/", "s", "i", "t", "e", ".", "u", "k", "/">>),
      JStr(<<"h", "t", "t", "p", "s", ":", "/", "/", "w", "w", "w", ".", "f", "a", "c", "e", "b", "o", "o", "k", ".", "c", "o", "m", "/">>) }

BeaconBodies ==
    { RootBeacon,
      BodyObject(<<>>),
      BodyObject([path |-> JStr(<<"/", "p", "a", "g", "e", "s", "/", "a", "b", "o", "u", "t", "?", "x", "=", "1", "#", "y">>)]),
      BodyObject([path |-> JStr(<<"/">>), page_slug |-> JStr(<<"l", "a", "n", "d", "i", "n", "g">>)]),
      BodyObject([path |-> JStr(<<"/">>), language |-> JStr(<<"e", "n", "-", "g", "b">>)]),
      BodyObject([path |-> JStr(<<"/">>), language |-> JNum(5)]),
      BodyObject([path |-> JStr(<<"/">>),
                  referrer |-> JStr(<<"h", "t", "t", "p", "s", ":", "/", "/", "w", "w", "w", ".", "g", "o", "o", "g", "l", "e", ".", "c", "o", ".", "u", "k", "/", "s", "e", "a", "r", "c", "h">>)]),
      BodyObject([url |-> JStr(ExampleUrl)]),
      BodyObject([url |-> JStr(<<"h", "t", "t", "p", ":", "/", "/", "s", "i", "t", "e", ".", "u", "k", "?", "u", "t", "m", "_", "m", "e", "d", "i", "u", "m", "=", "c", "p", "c">>)]),
      BodyObject([url |-> JStr(<<"h", "t", "t", "p", ":", "/", "/", "[", "b", "a", "d">>)]),
      BodyObject([url |-> JNum(5)]) }

BeaconRequest(user_agent, referer, country, body) ==
    [is_json |-> TRUE, origin |-> JNull, user_agent |-> JStr(user_agent),
     referer |-> referer, forwarded_for |-> JNull,
     country_headers |-> <<JNull, country, JNull>>,
     host |-> SiteHost, remote_addr |-> PeerAddr, body |-> body]

BeaconRequests ==
    {BeaconRequest(Browser, r, JNull, b) : r \in BeaconReferers, b \in BeaconBodies}
    \cup {BeaconRequest(u, JNull, c, RootBeacon) :
            u \in {Browser, MobileAgent, BotAgent},
            c \in {JNull, JStr(<<"X", "X">>), JStr(<<"g", "b">>)}}

PageBeacon ==
    \E req \in BeaconRequests : Len(events) < MaxBeacons /\ analytics_track(req)

NextBeacon == PageBeacon

SpecBeacon == Init /\ [][NextBeacon]_vars

(***************************************************************************)
(* The dashboard specification: two visitors, one on a desktop browser     *)
(* arriving directly and one on a phone arriving from a social network,    *)
(* leads, weeks passing, and a seven-day report whose queries interleave   *)
(* with the beacons.                                                       *)
(***************************************************************************)
MaxDashRows == 3    \* rows the store may hold in the dashboard specification
MaxDashWeeks == 2   \* seven-day jumps of the clock
MaxDashLeads == 1   \* leads captured

DashRequests ==
    { BeaconRequest(Browser, JNull, JNull,
                    BodyObject([path |-> JStr(<<"/">>),
                                visitor_id |-> JStr(<<"v", "1">>),
                                session_id |-> JStr(<<"s", "1">>)])),
      BeaconRequest(MobileAgent,
                    JStr(<<"h", "t", "t", "p", "s", ":", "/", "/", "w", "w", "w", ".", "f", "a", "c", "e", "b", "o", "o", "k", ".", "c", "o", "m", "/">>), JStr(<<"g", "b">>),
                    BodyObject([path |-> JStr(<<"/", "c", "o", "u", "r", "s", "e", "s">>),
                                visitor_id |-> JStr(<<"v", "2">>),
                                session_id |-> JStr(<<"s", "2">>)])) }

DashBeacon ==
    \E req \in DashRequests :
        Len(events) < MaxDashRows /\ may_serve /\ analytics_track(req)

DashLead == Len(leads) < MaxDashLeads /\ may_serve /\ create_lead

\* the weeks pass before the report is asked for (no request lasts a week)
DashWeek ==
    /\ now \div (7 * Day) < MaxDashWeeks
    /\ before_report
    /\ tick(7 * Day)

DashReport ==
    \/ before_report /\ admin_analytics_begin(JStr(<<"7">>))
    \/ ReportQueries

NextDash == DashBeacon \/ DashLead \/ DashWeek \/ DashReport

SpecDash == Init /\ [][NextDash]_vars

(***************************************************************************)
(* The slug specification: extract_slug_from_path called with a path and   *)
(* with the same path followed by a query string and/or a fragment.        *)
(***************************************************************************)
SlugPaths ==
    { JNull,
      JStr(<<>>),
      JStr(<<"/">>),
      JStr(<<"/", "/">>),
      JStr(<<"/", "p", "a", "g", "e", "s">>),
      JStr(<<"/", "p", "a", "g", "e", "s", "/">>),
      JStr(<<"/", "p", "a", "g", "e", "s", "/", "a", "b", "o", "u", "t">>),
      JStr(<<"/", "p", "a", "g", "e", "s", "/", "a", "b", "o", "u", "t", "/">>),
      JStr(<<"/", "p", "a", "g", "e", "s", "/", "a", "b", "o", "u", "t", "/", "t", "e", "a", "m">>),
      JStr(<<"/", "p", "a", "g", "e", "s", "/", "/", "x">>),
      JStr(<<"/", "c", "o", "u", "r", "s", "e", "s">>),
      JStr(<<"/", "c", "o", "u", "r", "s", "e", "s", "/">>),
      JStr(<<"c", "o", "u", "r", "s", "e", "s">>),
      JStr(<<"/", "b", "l", "o", "g", "/", "p", "o", "s", "t", "-", "1">>),
      JStr(<<"/", "a", "/", "b", "/", "c">>),
      JStr(<<"p", "a", "g", "e", "s", "/", "a", "b", "o", "u", "t">>),
      JStr(<<"/", "P", "a", "g", "e", "s", "/", "a", "b", "o", "u", "t">>),
      JStr(<<"/", "p", "a", "g", "e", "/", "a", "b", "o", "u", "t">>),
      JStr(<<"/", "p", "a", "g", "e", "s", "x", "/", "a", "b", "o", "u", "t">>),
      JStr(<<"/", "x", "/", "p", "a", "g", "e", "s", "/", "a", "b", "o", "u", "t">>),
      JStr(<<"/", "h", "o", "m", "e">>) }

SlugSuffixes ==
    { <<>>,
      <<"?", "x", "=", "1">>,
      <<"#", "y">>,
      <<"?", "x", "=", "1", "#", "y">>,
      <<"#", "y", "?", "x", "=", "1">>,
      <<"?">>,
      <<"#">>,
      <<"?", "a", "/", "b">>,
      <<"#", "/", "c", "/", "d">> }

slug_call(path, suffix) ==
    /\ calc' = [fn |-> "extract_slug_from_path",
                path |-> path,
                result |-> extract_slug_from_path(path),
                suffix |-> suffix,
                suffixed |-> IF path.t = "str"
                             THEN extract_slug_from_path(JStr(path.s \o suffix))
                             ELSE extract_slug_from_path(path)]
    /\ UNCHANGED <<events, leads, now, track, report, aside>>

NextSlug == \E path \in SlugPaths, suffix \in SlugSuffixes : slug_call(path, suffix)

SpecSlug == Init /\ [][NextSlug]_vars

(***************************************************************************)
(* The traffic-source specification: classify_traffic_source called with   *)
(* page URLs, referrers and serving hosts.  raised is the exception that   *)
(* urlparse raises for a value it cannot parse.                            *)
(***************************************************************************)
ClassifyUrls ==
    { JNull,
      JStr(<<>>),
      JNum(5),
      JStr(<<"h", "t", "t", "p", ":", "/", "/", "s", "i", "t", "e", ".", "u", "k", "/">>),
      JStr(<<"h", "t", "t", "p", ":", "/", "/", "s", "i", "t", "e", ".", "u", "k", "/", "?",
           "u", "t", "m", "_", "m", "e", "d", "i", "u", "m", "=", "c", "p", "c">>),
      JStr(<<"h", "t", "t", "p", ":", "/", "/", "s", "i", "t", "e", ".", "u", "k", "/", "?",
           "u", "t", "m", "_", "m", "e", "d", "i", "u", "m", "=">>),
      JStr(<<"h", "t", "t", "p", ":", "/", "/", "s", "i", "t", "e", ".", "u", "k", "/", "?",
           "u", "t", "m", "_", "m", "e", "d", "i", "u", "m", "=", "&", "u", "t", "m", "_", "m",
           "e", "d", "i", "u", "m", "=", "p", "p", "c">>),
      JStr(<<"h", "t", "t", "p", ":", "/", "/", "s", "i", "t", "e", ".", "u", "k", "/", "?",
           "u", "t", "m", "_", "m", "e", "d", "i", "u", "m">>),
      JStr(<<"h", "t", "t", "p", ":", "/", "/", "s", "i", "t", "e", ".", "u", "k", "/", "?",
           "u", "t", "m", "_", "m", "e", "d", "i", "u", "m", "=", "A", "f", "f", "i", "l", "i",
           "a", "t", "e">>),
      JStr(<<"h", "t", "t", "p", ":", "/", "/", "s", "i", "t", "e", ".", "u", "k", "/", "?",
           "u", "t", "m", "_", "m", "e", "d", "i", "u", "m", "=", "p", "a", "i", "d", "-", "s",
           "o", "c", "i", "a", "l">>),
      JStr(<<"h", "t", "t", "p", ":", "/", "/", "s", "i", "t", "e", ".", "u", "k", "/", "?",
           "u", "t", "m", "_", "m", "e", "d", "i", "u", "m", "=", "b", "a", "n", "n", "e",
           "r">>),
      JStr(<<"h", "t", "t", "p", ":", "/", "/", "s", "i", "t", "e", ".", "u", "k", "/", "#",
           "u", "t", "m", "_", "m", "e", "d", "i", "u", "m", "=", "c", "p", "c">>),
      JStr(<<"h", "t", "t", "p", ":", "/", "/", "s", "i", "t", "e", ".", "u", "k", "/", "?",
           "u", "t", "m", "%", "5", "F", "m", "e", "d", "i", "u", "m", "=", "%", "4", "3", "P",
           "C", "&", "u", "t", "m", "_", "c", "a", "m", "p", "a", "i", "g", "n", "=", "a", "+",
           "b">>),
      JStr(<<"h", "t", "t", "p", ":", "/", "/", "s", "i", "t", "e", ".", "u", "k", "/", "?",
           "U", "T", "M", "_", "M", "E", "D", "I", "U", "M", "=", "c", "p", "c">>),
      JStr(<<"h", "t", "t", "p", "s", ":", "/", "/", "s", "i", "t", "e", ".", "e", "x", "a",
           "m", "p", "l", "e", "/", "c", "o", "u", "r", "s", "e", "s", "?", "u", "t", "m", "_",
           "s", "o", "u", "r", "c", "e", "=", "n", "e", "w", "s", "l", "e", "t", "t", "e", "r",
           "&", "u", "t", "m", "_", "m", "e", "d", "i", "u", "m", "=", "e", "m", "a", "i",
           "l">>),
      JStr(<<"h", "t", "t", "p", ":", "/", "/", "[", "b", "a", "d", "?", "u", "t", "m", "_",
           "m", "e", "d", "i", "u", "m", "=", "c", "p", "c">>) }

ClassifyReferrers ==
    { JNull,
      JStr(<<>>),
      JNum(5),
      JStr(<<"h", "t", "t", "p", ":", "/", "/", "s", "i", "t", "e", ".", "u", "k", "/", "a">>),
      JStr(<<"h", "t", "t", "p", ":", "/", "/", "w", "w", "w", ".", "s", "i", "t", "e", ".",
           "u", "k", "/">>),
      JStr(<<"h", "t", "t", "p", "s", ":", "/", "/", "W", "W", "W", ".", "S", "I", "T", "E",
           ".", "U", "K", ":", "8", "4", "4", "3", "/", "x">>),
      JStr(<<"h", "t", "t", "p", ":", "/", "/", "e", "v", "i", "l", "s", "i", "t", "e", ".",
           "u", "k", "/">>),
      JStr(<<"h", "t", "t", "p", ":", "/", "/", "b", "l", "o", "g", ".", "s", "i", "t", "e",
           ".", "u", "k", "/">>),
      JStr(<<"h", "t", "t", "p", ":", "/", "/", "t", ".", "c", "o", "/", "x">>),
      JStr(<<"h", "t", "t", "p", "s", ":", "/", "/", "w", "w", "w", ".", "f", "a", "c", "e",
           "b", "o", "o", "k", ".", "c", "o", "m", "/">>),
      JStr(<<"h", "t", "t", "p", "s", ":", "/", "/", "w", "w", "w", ".", "g", "o", "o", "g",
           "l", "e", ".", "c", "o", ".", "u", "k", "/", "s", "e", "a", "r", "c", "h", "?", "q",
           "=", "x">>),
      JStr(<<"h", "t", "t", "p", ":", "/", "/", "e", "x", "a", "m", "p", "l", "e", ".", "o",
           "r", "g", "/">>),
      JStr(<<"h", "t", "t", "p", ":", "/", "/", "r", "e", "d", "d", "i", "t", ".", "c", "o",
           "m", "/">>),
      JStr(<<"t", ".", "c", "o", "/", "x">>),
      JStr(<<"/", "a", "b", "o", "u", "t">>),
      JStr(<<"h", "t", "t", "p", ":", "/", "/", "w", "w", "w", ".", "/">>),
      JStr(<<"h", "t", "t", "p", ":", "/", "/", "[", "b", "a", "d">>) }

ClassifyHosts ==
    { <<"s", "i", "t", "e", ".", "u", "k">>,
      <<"w", "w", "w", ".", "s", "i", "t", "e", ".", "u", "k">>,
      <<"s", "i", "t", "e", ".", "u", "k", ":", "8", "0", "8", "0">>,
      <<"W", "W", "W", ".", "S", "i", "t", "e", ".", "U", "K">>,
      <<>> }

NoSource ==
    [traffic_source |-> <<>>, utm_source |-> JNull, utm_medium |-> JNull,
     utm_campaign |-> JNull, referrer_domain |-> JNull]

classify_call(url, referrer, host) ==
    /\ calc' = [fn |-> "classify_traffic_source",
                url |-> url, referrer |-> referrer, host |-> host,
                raised |-> classify_traffic_source_raises(url, referrer),
                result |-> IF classify_traffic_source_raises(url, referrer) THEN NoSource
                           ELSE classify_traffic_source(url, referrer, host)]
    /\ UNCHANGED <<events, leads, now, track, report, aside>>

\* one call per run
NextClassify ==
    \E url \in ClassifyUrls, referrer \in ClassifyReferrers, host \in ClassifyHosts :
        calc.fn = "none" /\ classify_call(url, referrer, host)

SpecClassify == Init /\ [][NextClassify]_vars

(***************************************************************************)
(* The device specification: detect_device_details called with User-Agent  *)
(* strings that carry any combination of the words the function looks for. *)
(***************************************************************************)
DeviceWords ==
    << <<"i", "P", "a", "d">>, <<"T", "a", "b", "l", "e", "t">>, <<"M", "o", "b", "i", "l", "e">>, <<"i", "P", "h", "o", "n", "e">>, <<"A", "n", "d", "r", "o", "i", "d">>,
       <<"W", "i", "n", "d", "o", "w", "s", " ", "N", "T">>, <<"M", "a", "c", " ", "O", "S", " ", "X">>, <<"M", "a", "c", "i", "n", "t", "o", "s", "h">>, <<"C", "r", "i", "O", "S">>, <<"L", "i", "n", "u", "x">> >>

\* the User-Agent made of the chosen words, from the i-th on
RECURSIVE AgentOf(_, _)
AgentOf(chosen, i) ==
    IF i > Len(DeviceWords) THEN <<>>
    ELSE (IF i \in chosen THEN DeviceWords[i] \o <<";", " ">> ELSE <<>>) \o AgentOf(chosen, i + 1)

DeviceAgents ==
    {JNull, JStr(Browser), JStr(MobileAgent)}
    \cup {JStr(<<"M", "o", "z", "i", "l", "l", "a", "/", "5", ".", "0", " ", "(">> \o AgentOf(chosen, 1)) : chosen \in SUBSET (1..Len(DeviceWords))}

\* user_agent or "": None counts as the empty string
device_call(user_agent) ==
    /\ calc' = [fn |-> "detect_device_details",
                user_agent |-> user_agent,
                result |-> detect_device_details(IF Truthy(user_agent) THEN user_agent.s
                                                 ELSE <<>>)]
    /\ UNCHANGED <<events, leads, now, track, report, aside>>

\* one call per run
NextDevice == \E user_agent \in DeviceAgents : calc.fn = "none" /\ device_call(user_agent)

SpecDevice == Init /\ [][NextDevice]_vars

(***************************************************************************)
(* The country specification: extract_country_from_headers called with the *)
(* three country headers and the language of the payload.                  *)
(***************************************************************************)
CountryHeaders == { JNull, JStr(<<>>), JStr(<<"X", "X">>), JStr(<<"x", "x">>), JStr(<<"g", "b">>), JStr(<<"F", "R">>) }

CountryLanguages ==
    { JNull, JStr(<<>>), JStr(<<"e", "n">>), JStr(<<"e", "n", "-", "G", "B">>), JStr(<<"f", "r", "-", "f", "r">>), JStr(<<"e", "n", "-">>),
      JStr(<<"e", "n", "-", "x", "x">>), JStr(<<"z", "h", "-", "H", "a", "n", "t", "-", "T", "W">>) }

country_call(headers, language) ==
    /\ calc' = [fn |-> "extract_country_from_headers",
                headers |-> headers,
                language |-> language,
                result |-> extract_country_from_headers(headers, language)]
    /\ UNCHANGED <<events, leads, now, track, report, aside>>

\* one call per run
NextCountry ==
    \E cf \in CountryHeaders, appengine \in CountryHeaders, code \in CountryHeaders,
       language \in CountryLanguages :
        calc.fn = "none" /\ country_call(<<cf, appengine, code>>, language)

SpecCountry == Init /\ [][NextCountry]_vars

(***************************************************************************)
(* The identity specification: beacons with and without a visitor and a    *)
(* session of their own, from two browsers, directly and through a proxy,  *)
(* while the seconds pass.                                                 *)
(***************************************************************************)
MaxIdRows == 2      \* rows the store may hold in the identity specification
MaxIdSeconds == 1   \* seconds that pass

IdBodies ==
    { RootBeacon,
      BodyObject([path |-> JStr(<<"/", "c", "o", "u", "r", "s", "e", "s">>), is_session_start |-> JBool(TRUE),
                  page_title |-> JStr(<<"C", "o", "u", "r", "s", "e", "s">>)]),
      BodyObject([path |-> JStr(<<"/">>), visitor_id |-> JStr(<<"v", "1">>)]),
      BodyObject([path |-> JStr(<<"/">>), visitor_id |-> JStr(<<"v", "1">>),
                  session_id |-> JStr(<<"s", "1">>)]) }

IdRequests ==
    { [BeaconRequest(user_agent, JNull, JNull, body) EXCEPT !.forwarded_for = forwarded] :
          user_agent \in {Browser, MobileAgent},
          forwarded \in {JNull, JStr(<<"2", "0", "3", ".", "0", ".", "1", "1", "3", ".", "7">>)},
          body \in IdBodies }

IdBeacon == \E req \in IdRequests : Len(events) < MaxIdRows /\ analytics_track(req)

IdSecond == now < MaxIdSeconds /\ tick(1)

NextId == IdBeacon \/ IdSecond

SpecId == Init /\ [][NextId]_vars

(***************************************************************************)
(* The breakdown specification: beacons that each bring a campaign medium  *)
(* and a timezone of their own, or repeat a common one, then one report.   *)
(***************************************************************************)
MaxLimitRows == 11     \* rows the store may hold in the breakdown specification

\* the beacon sent when the store holds `stored` rows
LimitRequest(medium, timezone) ==
    BeaconRequest(Browser, JNull, JNull,
                  BodyObject([url |-> JStr(<<"h", "t", "t", "p", ":", "/", "/", "s", "i", "t", "e", ".", "u", "k", "/", "?", "u", "t", "m", "_", "m", "e", "d", "i", "u", "m", "=">> \o medium),
                              timezone |-> JStr(timezone)]))

LimitRequests(stored) ==
    { LimitRequest(<<LowerLetters[stored + 1]>>, <<UpperLetters[stored + 1]>>),
      LimitRequest(<<"e", "m", "a", "i", "l">>, <<"E", "u", "r", "o", "p", "e", "/", "L", "o", "n", "d", "o", "n">>) }

LimitBeacon ==
    \E req \in LimitRequests(Len(events)) :
        Len(events) < MaxLimitRows /\ before_report /\ analytics_track(req)

LimitReport ==
    \/ before_report /\ admin_analytics_begin(JStr(<<"7">>))
    \/ ReportQueries

NextLimit == LimitBeacon \/ LimitReport

SpecLimit == Init /\ [][NextLimit]_vars

(***************************************************************************)
(* The connection of a request.  Flask pushes an application context with  *)
(* an empty flask.g when a request arrives and pops it when the request    *)
(* ends, by a response or by an exception; close_db runs when it pops.     *)
(***************************************************************************)
\* a plausible slip: get_db connects at every call
get_db_always_connects(r) ==
    [db |-> Len(connections) + 1,
     connections |-> Append(connections, [owner |-> r, open |-> TRUE])]

\* lines 1683-1687: the connection returned to request r and the connections
\* after the call; flask.g holds no "db" when requests[r].db = 0
get_db(r) ==
    IF requests[r].db = 0
    THEN [db |-> Len(connections) + 1,
          connections |-> Append(connections, [owner |-> r, open |-> TRUE])]
    ELSE [db |-> requests[r].db, connections |-> connections]

\* lines 1689-1693: the connections after the teardown of request r
close_db(r) ==
    IF requests[r].db # 0
    THEN [connections EXCEPT ![requests[r].db].open = FALSE]
    ELSE connections

\* a request arrives: its handler starts with an empty flask.g
request_begin(r) ==
    /\ requests[r].pc = "idle"
    /\ requests' = [requests EXCEPT ![r].pc = "handler"]
    /\ UNCHANGED <<events, leads, now, track, report, calc, connections,
                   prospectus_versions>>

\* the handler, or a helper it calls, calls get_db
handler_get_db(r) ==
    /\ requests[r].pc = "handler"
    /\ requests[r].calls < MaxCalls
    /\ requests' = [requests EXCEPT ![r].db = get_db(r).db,
                                    ![r].calls = requests[r].calls + 1]
    /\ connections' = get_db(r).connections
    /\ UNCHANGED <<events, leads, now, track, report, calc, prospectus_versions>>

\* the handler returns its response
handler_return(r) ==
    /\ requests[r].pc = "handler"
    /\ requests' = [requests EXCEPT ![r].pc = "returned"]
    /\ UNCHANGED <<events, leads, now, track, report, calc, connections,
                   prospectus_versions>>

\* the handler raises: Flask answers 500
handler_raise(r) ==
    /\ requests[r].pc = "handler"
    /\ requests' = [requests EXCEPT ![r].pc = "raised", ![r].resp = Resp500]
    /\ UNCHANGED <<events, leads, now, track, report, calc, connections,
                   prospectus_versions>>

\* lines 1689-1693: the application context pops, after a response or an
\* exception: g.pop("db", None) and close
request_teardown(r) ==
    /\ requests[r].pc \in {"returned", "raised"}
    /\ connections' = close_db(r)
    /\ requests' = [requests EXCEPT ![r].pc = "done", ![r].db = 0]
    /\ UNCHANGED <<events, leads, now, track, report, calc, prospectus_versions>>

NextConnection ==
    \E r \in 1..MaxRequests :
        \/ request_begin(r)
        \/ handler_get_db(r)
        \/ handler_return(r)
        \/ handler_raise(r)
        \/ request_teardown(r)

SpecConnection == Init /\ [][NextConnection]_vars

(***************************************************************************)
(* The writers specification: accepted beacons served by concurrent        *)
(* requests, each analytics_track taken step by step: the handler up to    *)
(* db.execute, the INSERT under the write lock of the database file, the   *)
(* commit, the teardown.                                                   *)
(***************************************************************************)
MaxWriterSeconds == 5    \* seconds of the clock in the writers specification

\* sqlite3.connect(database) with its default timeout of 5.0 seconds: how long
\* a statement waits for a locked database before it raises OperationalError
BusyTimeout == 5

\* the write lock of the database file is held from the INSERT of a request
\* to its commit
write_locked_by_other(r) ==
    \E q \in 1..MaxRequests : q # r /\ requests[q].pc = "commit"

\* lines 3868-3921: an accepted beacon up to the call of db.execute: the
\* fields of the row with current_timestamp(), and the connection of get_db
track_begin(r, req) ==
    /\ requests[r].pc = "idle"
    /\ track_outcome(req, 0).insert
    /\ requests' = [requests EXCEPT ![r].pc = "execute",
                                    ![r].db = get_db(r).db,
                                    ![r].calls = 1,
                                    ![r].row = track_outcome(req, 0).row]
    /\ connections' = get_db(r).connections
    /\ UNCHANGED <<events, leads, now, track, report, calc, prospectus_versions>>

\* lines 3923-3973: the INSERT finds the database locked by another writer
\* and starts to wait
track_busy(r) ==
    /\ requests[r].pc = "execute"
    /\ write_locked_by_other(r)
    /\ requests' = [requests EXCEPT ![r].pc = "waiting", ![r].since = now]
    /\ UNCHANGED <<events, leads, now, track, report, calc, connections,
                   prospectus_versions>>

\* lines 3923-3973: the INSERT takes the write lock and the next id of the
\* AUTOINCREMENT key; the row is not in the table before the commit
track_insert(r) ==
    /\ requests[r].pc \in {"execute", "waiting"}
    /\ ~write_locked_by_other(r)
    /\ requests' = [requests EXCEPT ![r].pc = "commit",
                                    ![r].row = [requests[r].row EXCEPT !.id = Len(events) + 1]]
    /\ UNCHANGED <<events, leads, now, track, report, calc, connections,
                   prospectus_versions>>

\* lines 3923-3973: the database is still locked when the timeout of the
\* connection has passed: db.execute raises sqlite3.OperationalError
track_locked(r) ==
    /\ requests[r].pc = "waiting"
    /\ write_locked_by_other(r)
    /\ now - requests[r].since >= BusyTimeout
    /\ requests' = [requests EXCEPT ![r].pc = "raised", ![r].resp = Resp500]
    /\ UNCHANGED <<events, leads, now, track, report, calc, connections,
                   prospectus_versions>>

\* lines 3974-3975: db.commit() and the response
track_commit(r) ==
    /\ requests[r].pc = "commit"
    /\ events' = Append(events, requests[r].row)
    /\ requests' = [requests EXCEPT ![r].pc = "returned"]
    /\ UNCHANGED <<leads, now, track, report, calc, connections, prospectus_versions>>

WriterSecond == now < MaxWriterSeconds /\ tick(1)

NextWriters ==
    \/ \E r \in 1..MaxRequests :
           \/ \E req \in DashRequests : track_begin(r, req)
           \/ track_busy(r)
           \/ track_insert(r)
           \/ track_locked(r)
           \/ track_commit(r)
           \/ request_teardown(r)
    \/ WriterSecond

SpecWriters == Init /\ [][NextWriters]_vars

(***************************************************************************)
(* The prospectus versions: POST /admin/prospectus (upload), POST          *)
(* /admin/prospectus/<id>/activate and POST /admin/prospectus/<id>/delete. *)
(* A table is the record of its rows and of its AUTOINCREMENT counter.     *)
(***************************************************************************)
MaxVersions == 3             \* prospectus versions ever uploaded
MaxProspectusSeconds == 1    \* seconds of the clock in the prospectus specification

\* lines 2933-2965: create_prospectus_version at the instant t
create_prospectus_version(table, activate_now, t) ==
    LET kept == IF activate_now
                THEN { IF row.is_active = 1
                       THEN [row EXCEPT !.is_active = 0, !.updated_at = t]
                       ELSE row : row \in table.rows }
                ELSE table.rows
    IN  [rows |-> kept \cup {[id |-> table.seq + 1,
                              is_active |-> IF activate_now THEN 1 ELSE 0,
                              created_at |-> t, updated_at |-> t]},
         seq |-> table.seq + 1]

\* lines 2916-2921: get_prospectus_version, the set of the rows found
get_prospectus_version(table, version_id) ==
    {row \in table.rows : row.id = version_id}

\* a plausible slip: the other versions are not deactivated
set_active_prospectus_version_keeps_others(table, version_id, t) ==
    IF get_prospectus_version(table, version_id) = {} THEN table
    ELSE [table EXCEPT !.rows =
             { IF row.id = version_id
               THEN [row EXCEPT !.is_active = 1, !.updated_at = t]
               ELSE row : row \in table.rows }]

\* lines 2967-2986: set_active_prospectus_version at the instant t
set_active_prospectus_version(table, version_id, t) ==
    IF get_prospectus_version(table, version_id) = {} THEN table
    ELSE [table EXCEPT !.rows =
             { IF row.id = version_id
               THEN [row EXCEPT !.is_active = 1, !.updated_at = t]
               ELSE [row EXCEPT !.is_active = 0] : row \in table.rows }]

\* lines 2988-2991: delete_prospectus_version
delete_prospectus_version(table, version_id) ==
    [table EXCEPT !.rows = {row \in table.rows : row.id # version_id}]

\* lines 5336-5345: the id of the first row of ORDER BY datetime(created_at)
\* DESC, id DESC among the versions other than version_id, or 0 (None)
fallback_of(table, version_id) ==
    LET others == {row \in table.rows : row.id # version_id}
    IN  IF others = {} THEN 0
        ELSE (CHOOSE row \in others :
                 \A q \in others :
                     \/ q.created_at < row.created_at
                     \/ q.created_at = row.created_at /\ q.id <= row.id).id

\* lines 5276-5303: the upload; save_prospectus_pdf refuses a file that is
\* missing or is not a PDF, and nothing is stored
admin_prospectus_upload(is_pdf, activate_now) ==
    /\ prospectus_versions' =
           IF is_pdf THEN create_prospectus_version(prospectus_versions, activate_now, now)
           ELSE prospectus_versions
    /\ calc' = [fn |-> "admin_prospectus", version_id |-> 0, fallback_id |-> 0]
    /\ UNCHANGED <<events, leads, now, track, report, requests, connections>>

\* lines 5316-5324
admin_prospectus_activate(version_id) ==
    /\ prospectus_versions' =
           set_active_prospectus_version(prospectus_versions, version_id, now)
    /\ calc' = [fn |-> "admin_prospectus_activate", version_id |-> version_id,
                fallback_id |-> 0]
    /\ UNCHANGED <<events, leads, now, track, report, requests, connections>>

\* lines 5326-5354
admin_prospectus_delete(version_id) ==
    LET version == get_prospectus_version(prospectus_versions, version_id)
        fallback_id == IF \E row \in version : row.is_active = 1
                       THEN fallback_of(prospectus_versions, version_id)
                       ELSE 0
        deleted == delete_prospectus_version(prospectus_versions, version_id)
    IN  /\ prospectus_versions' =
               IF version = {} THEN prospectus_versions
               ELSE IF fallback_id # 0
               THEN set_active_prospectus_version(deleted, fallback_id, now)
               ELSE deleted
        /\ calc' = [fn |-> "admin_prospectus_delete", version_id |-> version_id,
                    fallback_id |-> fallback_id]
        /\ UNCHANGED <<events, leads, now, track, report, requests, connections>>

ProspectusSecond == now < MaxProspectusSeconds /\ tick(1)

NextProspectus ==
    \/ \E is_pdf, activate_now \in BOOLEAN :
           prospectus_versions.seq < MaxVersions
               /\ admin_prospectus_upload(is_pdf, activate_now)
    \/ \E version_id \in 1..(MaxVersions + 1) : admin_prospectus_activate(version_id)
    \/ \E version_id \in 1..(MaxVersions + 1) : admin_prospectus_delete(version_id)
    \/ ProspectusSecond

SpecProspectus == Init /\ [][NextProspectus]_vars

(***************************************************************************)
(* Claims about the ingestion endpoint, checked under SpecTrack.           *)
(***************************************************************************)
\* the rows the last request added
Written == Len(events) - track.before

\* the User-Agent as the handler reads it (headers.get("User-Agent", ""))
UserAgentOf(req) == IF req.user_agent.t = "null" THEN <<>> ELSE req.user_agent.s

\* two characters that are the same letter, whatever their case
SameLetter(a, b) ==
    a = b \/ \E i \in 1..26 : {a, b} = {UpperLetters[i], LowerLetters[i]}

\* s contains the token p in some letter case
ContainsAnyCase(s, p) ==
    \E i \in 1..(Len(s) - Len(p) + 1) :
        \A k \in 1..Len(p) : SameLetter(s[i + k - 1], p[k])

\* the path the beacon declares begins with "/admin"
DeclaresAdminPath(req) ==
    /\ req.body.kind = "object"
    /\ req.body.obj["path"].t = "str"
    /\ StartsWith(req.body.obj["path"].s, <<"/", "a", "d", "m", "i", "n">>)

\* the host an Origin header names: what follows "scheme://"
OriginHost(origin) == urlparse(origin).netloc

\* C1: every request to /analytics/track ends with HTTP 204 and an empty body.
C1_Always204 ==
    track.served => track.resp = [status |-> 204, body |-> ""]

\* C2: a request whose body does not parse as JSON leaves analytics_events as it was.
C2_MalformedBodyWritesNothing ==
    (track.served /\ track.req.body.kind = "malformed") => Written = 0

\* C3: a beacon whose Origin names another host than the serving host writes no
\* row, and a beacon without an Origin header passes the origin guard.
C3_ForeignOriginWritesNothing ==
    track.served =>
        /\ (track.req.origin.t = "str" /\ track.req.origin.s # <<>>
            /\ OriginHost(track.req.origin.s) # track.req.host) => Written = 0
        /\ track.req.origin.t = "null" => ~origin_rejected(track.req)

\* C4: a JSON beacon with a valid JSON body, no admin path, a User-Agent that is
\* not a bot's and an Origin that is absent or the site's own is recorded as
\* exactly one row; any request adds 0 or 1 rows.
C4_AcceptedBeaconWritesOneRow ==
    track.served =>
        /\ Written \in {0, 1}
        /\ ( /\ track.req.is_json
             /\ track.req.body.kind # "malformed"
             /\ ~DeclaresAdminPath(track.req)
             /\ ~(\E token \in bot_tokens : ContainsAnyCase(UserAgentOf(track.req), token))
             /\ \/ track.req.origin.t = "null"
                \/ track.req.origin.s = <<"h", "t", "t", "p", ":", "/", "/">> \o track.req.host
           ) => Written = 1

\* C6: a User-Agent that contains one of the bot tokens in any letter case is
\* classified as a bot and its beacon writes no row; an empty User-Agent is not
\* classified as a bot.
C6_BotsAreDiscarded ==
    track.served =>
        LET ua == UserAgentOf(track.req)
        IN  /\ (\E token \in bot_tokens : ContainsAnyCase(ua, token))
                   => (is_probably_bot(ua) /\ Written = 0)
            /\ ua = <<>> => ~is_probably_bot(ua)

C6_Witness ==
    /\ track.served
    /\ track.req.is_json
    /\ track.req.origin.t = "null"
    /\ track.req.body = RootBeacon
    /\ UserAgentOf(track.req) = <<"G", "o", "o", "g", "l", "e", "B", "o", "t", "/", "2", ".", "1">>
    /\ Written = 0
    /\ track.resp.status = 204

\* C7: a beacon whose declared path begins with "/admin" writes no row.
C7_AdminPathWritesNothing ==
    (track.served /\ DeclaresAdminPath(track.req)) => Written = 0

C7_Witness ==
    /\ track.served
    /\ track.req.is_json
    /\ track.req.origin.t = "null"
    /\ UserAgentOf(track.req) = Browser
    /\ track.req.body = BodyObject([path |-> JStr(<<"/", "a", "d", "m", "i", "n", "/", "x">>)])
    /\ Written = 0
    /\ track.resp.status = 204

\* the row the last request wrote
LastRow == events[Len(events)]

\* the request passes the guards of the endpoint: JSON content type, no foreign
\* Origin, a User-Agent that is not a bot's
PassesGuards(req) ==
    /\ req.is_json
    /\ req.origin.t = "null"
    /\ ~(\E token \in bot_tokens : ContainsAnyCase(UserAgentOf(req), token))

\* C14: a beacon {"path": "/", "referrer": null} with a non-bot User-Agent
\* inserts exactly one row, with page_slug "home" and traffic_source "Direct".
C14_RootBeaconIsDirectHome ==
    (track.served /\ PassesGuards(track.req) /\ track.req.body = RootBeacon) =>
        /\ Written = 1
        /\ LastRow.page_slug = JStr(<<"h", "o", "m", "e">>)
        /\ LastRow.traffic_source = JStr(<<"D", "i", "r", "e", "c", "t">>)

\* C15: a beacon that supplies url but no path is recorded, with the path of the
\* url as path and the UTM parameters of the url's query; the example url
\* https://site.example/courses?utm_source=newsletter&utm_medium=email gives
\* traffic_source "Email", utm_source "newsletter", utm_medium "email", path
\* "/courses" and page_slug "courses".
C15_UrlOnlyBeacon ==
    ( /\ track.served /\ PassesGuards(track.req)
      /\ track.req.body.kind = "object"
      /\ ~Truthy(track.req.body.obj["path"])
      /\ track.req.body.obj["url"].t = "str" /\ track.req.body.obj["url"].s # <<>> ) =>
        /\ Written = 1
        /\ track.req.body.obj["url"] = JStr(ExampleUrl) =>
             /\ LastRow.traffic_source = JStr(<<"E", "m", "a", "i", "l">>)
             /\ LastRow.utm_source = JStr(<<"n", "e", "w", "s", "l", "e", "t", "t", "e", "r">>)
             /\ LastRow.utm_medium = JStr(<<"e", "m", "a", "i", "l">>)
             /\ LastRow.path = JStr(<<"/", "c", "o", "u", "r", "s", "e", "s">>)
             /\ LastRow.page_slug = JStr(<<"c", "o", "u", "r", "s", "e", "s">>)

(***************************************************************************)
(* Claims about the pure helpers of the Event Classifier.                  *)
(***************************************************************************)
\* the last run of characters other than "/" of a path that has one
RECURSIVE FinalSegment(_)
FinalSegment(p) ==
    IF p[Len(p)] = "/" THEN FinalSegment(SubSeq(p, 1, Len(p) - 1))
    ELSE LET cut == {i \in 1..Len(p) : p[i] = "/"}
             last == IF cut = {} THEN 0 ELSE CHOOSE i \in cut : \A j \in cut : j <= i
         IN  SubSeq(p, last + 1, Len(p))

\* C16: extract_slug_from_path gives "home" for the root path "/" and for the
\* empty path, <slug> for "/pages/<slug>", and the final segment of any other
\* path (checked on the paths without query string or fragment).
C16_SlugOfPath ==
    (calc.fn = "extract_slug_from_path" /\ calc.path.t = "str") =>
        LET p == calc.path.s
            pages == <<"/", "p", "a", "g", "e", "s", "/">>
            plain == \A i \in 1..Len(p) : p[i] \notin {"?", "#"}
            named == \E i \in 1..Len(p) : p[i] # "/"
            slug == SubSeq(p, Len(pages) + 1, Len(p))
        IN  /\ p \in {<<>>, <<"/">>} => calc.result = JStr(<<"h", "o", "m", "e">>)
            /\ (StartsWith(p, pages) /\ slug # <<>> /\ \A i \in 1..Len(slug) : slug[i] \notin {"/", "?", "#"})
                   => calc.result = JStr(slug)
            /\ (plain /\ named /\ ~StartsWith(p, pages) /\ ~StartsWith(p, <<"p", "a", "g", "e", "s", "/">>))
                   => calc.result = JStr(FinalSegment(p))

\* C17: appending a query string and/or a fragment to a path does not change
\* the slug extract_slug_from_path gives.
C17_SlugIgnoresQueryAndFragment ==
    (calc.fn = "extract_slug_from_path" /\ calc.path.t = "str") =>
        /\ calc.suffixed = calc.result
        /\ (calc.path.s = <<"/", "p", "a", "g", "e", "s", "/", "a", "b", "o", "u", "t">> /\ calc.suffix = <<"?", "x", "=", "1", "#", "y">>)
               => (calc.result = JStr(<<"a", "b", "o", "u", "t">>) /\ calc.suffixed = JStr(<<"a", "b", "o", "u", "t">>))

\* the utm_medium a page URL carries: the first non-blank one of its query
MediumOf(url) ==
    IF url.t = "str" /\ url.s # <<>>
    THEN parse_qs_get(urlparse(url.s).query, <<"u", "t", "m", "_", "m", "e", "d", "i", "u", "m">>)
    ELSE JNull

\* the domain a referrer names, lower-cased, without "www." and without port
DomainOf(referrer) == normalise_domain(urlparse(referrer.s).netloc)

\* C12: classify_traffic_source returns a label by the precedence UTM medium >
\* internal > social > search > referral > direct: a URL with a non-empty
\* utm_medium is labelled by the medium alone, whatever the referrer is
\* (utm_medium=cpc with a social referrer gives "Paid Search"); without a
\* utm_medium, a referrer is labelled Internal, Social, Organic Search or
\* Referral, the first that matches; with neither the label is "Direct".
C12_SourcePrecedence ==
    (calc.fn = "classify_traffic_source" /\ calc.url.t # "num") =>
        LET medium == MediumOf(calc.url)
            label == calc.result.traffic_source
            domain == DomainOf(calc.referrer)
            host == normalise_domain(calc.host)
        IN  /\ Truthy(medium) => (~calc.raised /\ label = medium_label(medium.s))
            /\ (Truthy(medium) /\ Lower(medium.s) = <<"c", "p", "c">>) => label = <<"P", "a", "i", "d", " ", "S", "e", "a", "r", "c", "h">>
            /\ (~Truthy(medium) /\ calc.referrer.t = "str" /\ calc.referrer.s # <<>>) =>
                 /\ ~calc.raised
                 /\ label = IF host # <<>> /\ EndsWith(domain, host) THEN <<"I", "n", "t", "e", "r", "n", "a", "l">>
                            ELSE IF \E token \in SOCIAL_DOMAINS : Contains(domain, token)
                            THEN <<"S", "o", "c", "i", "a", "l">>
                            ELSE IF \E token \in SEARCH_DOMAINS : Contains(domain, token)
                            THEN <<"O", "r", "g", "a", "n", "i", "c", " ", "S", "e", "a", "r", "c", "h">>
                            ELSE <<"R", "e", "f", "e", "r", "r", "a", "l">>
            /\ (~Truthy(medium) /\ ~Truthy(calc.referrer)) => label = <<"D", "i", "r", "e", "c", "t">>

\* C13: without a utm_medium, a referrer whose domain is the serving host, both
\* lower-cased and without "www." and port, is labelled "Internal", and a
\* referrer on another site (neither the host nor one of its subdomains) is not.
C13_InternalReferrer ==
    ( /\ calc.fn = "classify_traffic_source"
      /\ ~calc.raised
      /\ ~Truthy(MediumOf(calc.url))
      /\ calc.referrer.t = "str" /\ DomainOf(calc.referrer) # <<>>
      /\ calc.host # <<>> ) =>
        LET domain == DomainOf(calc.referrer)
            host == normalise_domain(calc.host)
        IN  /\ domain = host => calc.result.traffic_source = <<"I", "n", "t", "e", "r", "n", "a", "l">>
            /\ (domain # host /\ ~EndsWith(domain, <<".">> \o host))
                   => calc.result.traffic_source # <<"I", "n", "t", "e", "r", "n", "a", "l">>

(***************************************************************************)
(* Claims about the event store and the report.                            *)
(***************************************************************************)
\* C5: analytics_events is append-only and its rows never change: every step
\* keeps the rows it found, in place and unchanged, and a step of a report
\* leaves analytics_events and leads as they were.
C5_AppendOnly ==
    [][ /\ Len(events') >= Len(events)
        /\ SubSeq(events', 1, Len(events)) = events
        /\ report' # report => (events' = events /\ leads' = leads) ]_vars

C5_Witness ==
    /\ Len(events) >= 1
    /\ leads # <<>>
    /\ track.served /\ Written = 0 /\ UserAgentOf(track.req) = BotAgent
    /\ report.pc = "done" /\ report.totals_rows >= 1

\* C8: whatever the range parameter is, range_days is one of 7, 30, 60, 90, 180:
\* the parameter itself when it is one of these integers, 30 otherwise.
C8_RangeNormalised ==
    report.pc # "idle" =>
        LET given == IF report.arg.t = "null" THEN [ok |-> FALSE, v |-> 0]
                     ELSE int(report.arg.s)
        IN  /\ report.range_days \in {7, 30, 60, 90, 180}
            /\ (given.ok /\ given.v \in {7, 30, 60, 90, 180}) => report.range_days = given.v
            /\ ~(given.ok /\ given.v \in {7, 30, 60, 90, 180}) => report.range_days = 30
            /\ report.arg = JStr(<<"1", "8", "0">>) => report.range_days = 180
            /\ report.arg = JStr(<<"7">>) => report.range_days = 7

C8_Witness ==
    /\ report.pc = "done"
    /\ report.arg = JStr(<<"4", "5">>)
    /\ report.range_days = 30

\* the rows a totals query saw whose created_at lies in [lo, hi]
SeenBetween(rows, lo, hi) ==
    {i \in 1..rows : lo <= events[i].created_at /\ events[i].created_at <= hi}

WindowRows ==
    {i \in 1..report.totals_rows :
         in_current_window(events[i], report.totals_at, report.range_days)}

\* the sessions of the report's window with exactly k events in it
SessionsWith(k) ==
    {s \in {events[i].session_id : i \in WindowRows} :
         Cardinality({i \in WindowRows : events[i].session_id = s}) = k}

\* C18: the bounce rate of a finished report is the single-page sessions of
\* its window over the sessions of its window, times 100, rounded to one
\* decimal, and 0.0 without sessions; a session with exactly one event in the
\* window counts as single-page; the denominator is the sessions KPI.
C18_BounceRate ==
    report.pc = "done" =>
        LET in_window == {events[i].session_id : i \in WindowRows}
        IN  /\ report.single_page_sessions = Cardinality(SessionsWith(1))
            /\ report.total_sessions = Cardinality(in_window)
            /\ report.total_sessions = report.sessions
            /\ report.bounce_rate =
                   IF in_window = {} THEN 0
                   ELSE RoundHalfEven(Cardinality(SessionsWith(1)) * 1000,
                                      Cardinality(in_window))

\* the earliest event of a visitor over the whole table
EarliestEvent(v) ==
    LET own == {i \in 1..Len(events) : events[i].visitor_id = v}
    IN  CHOOSE t \in {events[i].created_at : i \in own} :
            \A i \in own : t <= events[i].created_at

\* C19: in a finished report no more visitors are new than have their earliest
\* event of all history inside the window, so new_visitors <= unique_visitors
\* and new_visitors + returning_visitors = unique_visitors.
C19_NewVisitors ==
    report.pc = "done" =>
        LET visitors == {events[i].visitor_id : i \in 1..Len(events)}
            start == report.totals_at - report.range_days * Day
        IN  /\ report.new_visitors
                   <= Cardinality({v \in visitors : EarliestEvent(v) >= start})
            /\ report.new_visitors <= report.unique_visitors
            /\ report.new_visitors + report.returning_visitors = report.unique_visitors

RECURSIVE SumOfShares(_)
SumOfShares(rows) ==
    IF rows = {} THEN 0
    ELSE LET r == CHOOSE x \in rows : TRUE
         IN  r.share + SumOfShares(rows \ {r})

\* the share-of-total tables of the report
ShareTables ==
    { report.top_pages, report.top_countries, report.device_table,
      report.os_table, report.traffic_table }

\* C11: in a finished report every share of every share-of-total table is 0.0
\* when the total page views are 0, and the shares of a table sum to at most
\* 100.0 plus the rounding slack (0.05 a row) when the total is positive.
C11_SharesOfTotal ==
    report.pc = "done" =>
        \A table \in ShareTables :
            /\ report.page_views = 0 => \A r \in table : r.share = 0
            /\ report.page_views > 0 =>
                   2 * SumOfShares(table) <= 2000 + Cardinality(table)

\* the direction a card must show for its percent change
ExpectedDirection(card) ==
    IF card.trend.kind = "none" \/ card.trend.tenths = 0 THEN "neutral"
    ELSE IF card.invert THEN (IF card.trend.tenths < 0 THEN "up" ELSE "down")
    ELSE (IF card.trend.tenths > 0 THEN "up" ELSE "down")

Cards == {report.kpi_cards[k] : k \in 1..Len(report.kpi_cards)}

BounceCard == CHOOSE card \in Cards : card.label = "Bounce Rate"

\* what holds of every card: the direction follows the sign of the change,
\* inverted for the Bounce Rate card alone, and the trend reported is the
\* change itself, negative for a fall
DirectionFollowsTrend ==
    \A card \in Cards :
        /\ card.invert = (card.label = "Bounce Rate")
        /\ card.trend_direction = ExpectedDirection(card)
        /\ card.trend = compute_percent_change(JNum(card.value), JNum(card.prev_value))
        /\ (card.prev_value > 0 /\ card.value < card.prev_value) => card.trend.tenths < 0
        /\ (card.prev_value > 0 /\ card.value > card.prev_value) => card.trend.tenths > 0

OsFamilies ==
    << [label |-> <<"W", "i", "n", "d", "o", "w", "s">>, words |-> {<<"w", "i", "n", "d", "o", "w", "s">>}],
       [label |-> <<"m", "a", "c", "O", "S">>, words |-> {<<"m", "a", "c", " ", "o", "s">>, <<"m", "a", "c", "i", "n", "t", "o", "s", "h">>}],
       [label |-> <<"i", "O", "S">>, words |-> {<<"i", "p", "h", "o", "n", "e">>, <<"i", "p", "a", "d">>, <<"i", "o", "s">>}],
       [label |-> <<"A", "n", "d", "r", "o", "i", "d">>, words |-> {<<"a", "n", "d", "r", "o", "i", "d">>}],
       [label |-> <<"L", "i", "n", "u", "x">>, words |-> {<<"l", "i", "n", "u", "x">>}] >>

\* C22: detect_device_details gives Tablet for a User-Agent with "ipad" or
\* "tablet" in any letter case, else Mobile for one with "mobile", "iphone" or
\* "android", else Desktop (so "ipad" with "mobile" is Tablet); the OS is that
\* of the first family among windows, mac, ios, android, linux with a word in
\* the User-Agent, else Other; the result lies in the two fixed sets.
C22_DevicePriority ==
    calc.fn = "detect_device_details" =>
        LET ua == IF Truthy(calc.user_agent) THEN calc.user_agent.s ELSE <<>>
            has(word) == ContainsAnyCase(ua, word)
            matching == {k \in 1..Len(OsFamilies) : \E w \in OsFamilies[k].words : has(w)}
        IN  /\ calc.result.device_type =
                   IF has(<<"i", "p", "a", "d">>) \/ has(<<"t", "a", "b", "l", "e", "t">>) THEN <<"T", "a", "b", "l", "e", "t">>
                   ELSE IF has(<<"m", "o", "b", "i", "l", "e">>) \/ has(<<"i", "p", "h", "o", "n", "e">>) \/ has(<<"a", "n", "d", "r", "o", "i", "d">>)
                   THEN <<"M", "o", "b", "i", "l", "e">>
                   ELSE <<"D", "e", "s", "k", "t", "o", "p">>
            /\ (has(<<"i", "p", "a", "d">>) /\ has(<<"m", "o", "b", "i", "l", "e">>)) => calc.result.device_type = <<"T", "a", "b", "l", "e", "t">>
            /\ calc.result.device_os =
                   IF matching = {} THEN <<"O", "t", "h", "e", "r">>
                   ELSE OsFamilies[CHOOSE k \in matching : \A j \in matching : k <= j].label
            /\ calc.result.device_type \in {<<"D", "e", "s", "k", "t", "o", "p">>, <<"T", "a", "b", "l", "e", "t">>, <<"M", "o", "b", "i", "l", "e">>}
            /\ calc.result.device_os \in {<<"W", "i", "n", "d", "o", "w", "s">>, <<"m", "a", "c", "O", "S">>, <<"i", "O", "S">>, <<"A", "n", "d", "r", "o", "i", "d">>,
                                          <<"L", "i", "n", "u", "x">>, <<"O", "t", "h", "e", "r">>}

\* a User-Agent with "ipad", "mobile", "android" and "linux": the tablet test
\* comes first, and "ipad" makes it iOS before android and linux are tried
C22_Witness ==
    /\ calc.fn = "detect_device_details"
    /\ Truthy(calc.user_agent)
    /\ ContainsAnyCase(calc.user_agent.s, <<"i", "p", "a", "d">>)
    /\ ContainsAnyCase(calc.user_agent.s, <<"m", "o", "b", "i", "l", "e">>)
    /\ ContainsAnyCase(calc.user_agent.s, <<"l", "i", "n", "u", "x">>)
    /\ ContainsAnyCase(calc.user_agent.s, <<"a", "n", "d", "r", "o", "i", "d">>)
    /\ calc.result = [device_type |-> <<"T", "a", "b", "l", "e", "t">>, device_os |-> <<"i", "O", "S">>]

\* what follows the last hyphen of a language tag
RECURSIVE Subtag(_)
Subtag(language) ==
    IF Find(language, "-") = 0 THEN language
    ELSE Subtag(SubSeq(language, Find(language, "-") + 1, Len(language)))

\* C23: extract_country_from_headers returns, upper-cased, the first of the
\* three headers that is non-empty and not "XX"; without one, the upper-cased
\* subtag after the hyphen of the language; without that, "Unknown"; so the
\* country stored with an event is never empty and never "XX".
C23_CountryOfEvent ==
    calc.fn = "extract_country_from_headers" =>
        LET given == {i \in 1..3 : calc.headers[i].t = "str" /\ calc.headers[i].s # <<>>
                                     /\ calc.headers[i].s # <<"X", "X">>}
            tagged == calc.language.t = "str" /\ Find(calc.language.s, "-") # 0
        IN  /\ given # {} =>
                   calc.result = Upper(calc.headers[CHOOSE i \in given :
                                                        \A j \in given : i <= j].s)
            /\ (given = {} /\ tagged) => calc.result = Upper(Subtag(calc.language.s))
            /\ (given = {} /\ ~tagged) => calc.result = <<"U", "n", "k", "n", "o", "w", "n">>
            /\ calc.result # <<>>
            /\ calc.result # <<"X", "X">>

(***************************************************************************)
(* Claims about the identity of visitors and sessions.                     *)
(***************************************************************************)
\* the address a request is seen to come from: the X-Forwarded-For header,
\* else the peer
SeenAddress(req) ==
    IF req.forwarded_for.t = "null" THEN req.remote_addr ELSE req.forwarded_for.s

\* the value a beacon gives for a key, JNull when it omits the key
Given(req, key) == req.body.obj[key]

C27_NoAdminPathStored ==
    \A i \in 1..Len(events) :
        events[i].path.t = "str" => ~StartsWith(events[i].path.s, <<"/", "a", "d", "m", "i", "n">>)

(***************************************************************************)
(* Claims about the charts and the tables of the dashboard.                *)
(***************************************************************************)
RECURSIVE SumOfSeries(_)
SumOfSeries(series) ==
    IF series = <<>> THEN 0 ELSE Head(series) + SumOfSeries(Tail(series))

\* the events of the window [t - N days, t] seen on calendar day d
SeenOnDay(d, t, days) ==
    {i \in 1..Len(events) :
        /\ events[i].created_at >= t - days * Day
        /\ events[i].created_at <= t
        /\ events[i].created_at \div Day = d}

\* a report that ran with no write and no second between its begin and its end
UndisturbedReport ==
    /\ report.pc = "done"
    /\ Len(events) = report.begin_rows
    /\ now = report.begin_at

\* C29: for a range of N days the daily chart has exactly N entries, one for
\* each calendar day of the N that end today, each the number of events of the
\* window on that day (0 when there is none); with no concurrent write the
\* page_views values of the series sum to the page_views figure of the report.
C29_DailySeries ==
    UndisturbedReport =>
        /\ Len(report.daily_page_views) = report.range_days
        /\ \A k \in 1..report.range_days :
               report.daily_page_views[k] =
                   Cardinality(SeenOnDay(now \div Day - (report.range_days - k),
                                         now, report.range_days))
        /\ SumOfSeries(report.daily_page_views) = report.page_views

\* the part of C29 the code keeps: N entries, one per day, each the count
C29_EntriesPerDay ==
    UndisturbedReport =>
        /\ Len(report.daily_page_views) = report.range_days
        /\ \A k \in 1..report.range_days :
               report.daily_page_views[k] =
                   Cardinality(SeenOnDay(now \div Day - (report.range_days - k),
                                         now, report.range_days))

\* the case that breaks the sum: an event of the window seen on the day
\* before the first day of the chart
C29_EventBeforeFirstDay ==
    /\ UndisturbedReport
    /\ report.page_views = 1
    /\ SumOfSeries(report.daily_page_views) = 0

RECURSIVE SumOfVisits(_)
SumOfVisits(rows) ==
    IF rows = {} THEN 0
    ELSE LET r == CHOOSE x \in rows : TRUE
         IN  r.visits + SumOfVisits(rows \ {r})

\* the figures of a finished report that one snapshot of the store would tie
OneSnapshot ==
    /\ SumOfVisits(report.device_table) = report.page_views
    /\ SumOfSeries(report.hourly_values) = report.page_views
    /\ report.total_sessions = report.sessions
    /\ \A table \in ShareTables : \A r \in table : r.share <= 1000

\* C28: every report is consistent with one snapshot of the store, also when
\* beacons are stored while the report runs its queries: the visits of the
\* device table sum to page_views, the 24 hourly values sum to page_views, the
\* session count of the bounce-rate query equals the sessions figure, and no
\* share exceeds 100.0.
C28_OneSnapshot ==
    report.pc = "done" => OneSnapshot

\* what the code keeps: a report during which nothing was stored is consistent
C28_QuietReport ==
    (report.pc = "done" /\ Len(events) = report.begin_rows) => OneSnapshot

\* a finished report with one more session in the bounce-rate query than in
\* the sessions figure
C28_SessionsDiffer ==
    /\ report.pc = "done"
    /\ report.total_sessions = report.sessions + 1

\* the breakdown tables of a report, the timezone table apart
BreakdownTables ==
    { report.top_pages, report.top_countries, report.referrer_rows,
      report.device_table, report.os_table, report.traffic_table }

\* C21: whatever the store holds, no breakdown table of a report (top pages,
\* top countries, referrers, timezones, device types, device OS, traffic
\* sources) has more than 10 rows, and the timezone table has at most 8.
C21_TopN ==
    report.pc = "done" =>
        /\ \A table \in BreakdownTables : Cardinality(table) <= 10
        /\ Cardinality(report.timezone_rows) <= 8

\* what the code keeps: the queries that carry a LIMIT
C21_LimitedQueries ==
    report.pc = "done" =>
        /\ \A table \in {report.top_pages, report.top_countries, report.referrer_rows} :
               Cardinality(table) <= 10
        /\ Cardinality(report.timezone_rows) <= 8

\* eleven traffic sources in the table of a finished report, beside a timezone
\* table cut to 8 and a referrer table cut to 10
C21_ElevenSources ==
    /\ report.pc = "done"
    /\ Cardinality(report.traffic_table) = 11
    /\ Cardinality(report.timezone_rows) = 8
    /\ Cardinality(report.referrer_rows) = 10

(***************************************************************************)
(* Claims about the connections and the concurrent requests.               *)
(***************************************************************************)
\* the connections request r has opened, and those of them still open
OpenedBy(r) == {c \in 1..Len(connections) : connections[c].owner = r}

OpenOf(r) == {c \in OpenedBy(r) : connections[c].open}

\* one step of request r keeps to the lifecycle: a connection is opened only
\* by the first get_db call of the request, a later call returns the same
\* connection and opens none, and a closed connection stays closed
LifecycleStep(r) ==
    /\ Len(connections') > Len(connections) /\ connections'[Len(connections')].owner = r
           => /\ requests[r].calls = 0
              /\ requests'[r].calls = 1
              /\ requests'[r].db = Len(connections')
    /\ requests[r].calls >= 1 /\ requests'[r].calls > requests[r].calls
           => /\ requests'[r].db = requests[r].db
              /\ connections' = connections
    /\ \A c \in OpenedBy(r) : ~connections[c].open => ~connections'[c].open

\* C25: each request has its own connection with the lifecycle closed, open,
\* closed: it is opened only on the first get_db call of the request, every
\* later get_db call of the request returns that same connection, at most one
\* connection of a request is ever open, and after the teardown of the request
\* none it opened is open, whether the request returned or raised.
C25_ConnectionLifecycle ==
    /\ [](\A r \in 1..MaxRequests :
             /\ Cardinality(OpenedBy(r)) <= 1
             /\ requests[r].pc = "handler" /\ requests[r].calls >= 1
                    => OpenOf(r) = {requests[r].db}
             /\ requests[r].calls = 0 => OpenedBy(r) = {}
             /\ requests[r].pc = "done" => OpenOf(r) = {})
    /\ [][\A r \in 1..MaxRequests : LifecycleStep(r)]_vars

\* a request that called get_db twice, raised, and was torn down with its one
\* connection closed, while another request holds its own open connection
C25_Witness ==
    \E r, q \in 1..MaxRequests :
        /\ requests[r].pc = "done"
        /\ requests[r].calls = 2
        /\ requests[r].resp = Resp500
        /\ Cardinality(OpenedBy(r)) = 1
        /\ OpenOf(r) = {}
        /\ q # r
        /\ Cardinality(OpenOf(q)) = 1

\* the requests that were received, and whether all of them have ended
Received == {r \in 1..MaxRequests : requests[r].pc # "idle"}

AllEnded == \A r \in Received : requests[r].pc = "done"

\* the fields of a row, the id apart
Fields(row) == [row EXCEPT !.id = 0]

\* the rows are those of the beacons, one row a beacon
OneRowEach ==
    \E f \in [1..Len(events) -> Received] :
        /\ \A i, j \in 1..Len(events) : f[i] = f[j] => i = j
        /\ \A i \in 1..Len(events) : Fields(events[i]) = Fields(requests[f[i]].row)

IdsIncrease ==
    \A i, j \in 1..Len(events) : i < j => events[i].id < events[j].id

\* C24: when k accepted beacons are handled by concurrent requests, in any
\* interleaving of their steps, analytics_events ends with exactly k more rows,
\* each with the fields of exactly one of the beacons and an id of its own, the
\* ids strictly increasing in the order of insertion.
C24_NothingLost ==
    AllEnded =>
        /\ Len(events) = Cardinality(Received)
        /\ OneRowEach
        /\ IdsIncrease

\* what the code keeps: never a row too many, a row only from a beacon, the
\* ids increasing; and no row missing when no request was refused the lock
C24_Serialised ==
    /\ Len(events) <= Cardinality(Received)
    /\ OneRowEach
    /\ IdsIncrease
    /\ (AllEnded /\ \A r \in Received : requests[r].resp = Resp204)
           => Len(events) = Cardinality(Received)

\* two beacons, one row: the second request waited five seconds and raised
C24_BeaconLost ==
    /\ AllEnded
    /\ Cardinality(Received) = 2
    /\ Len(events) = 1
    /\ \E r \in Received : requests[r].resp = Resp500

(***************************************************************************)
(* Claims about the prospectus versions.                                   *)
(***************************************************************************)
\* the ids of the active versions of a table
ActiveIds(table) == {row.id : row \in {x \in table.rows : x.is_active = 1}}

\* the id of the most recently created version of a table that has rows
NewestId(table) ==
    (CHOOSE row \in table.rows :
        \A q \in table.rows : q.created_at < row.created_at
                                  \/ (q.created_at = row.created_at /\ q.id <= row.id)).id

\* one prospectus operation, from the table before to the table after
ProspectusStep(before, after, request) ==
    /\ request.fn = "admin_prospectus_activate" =>
           IF \E row \in before.rows : row.id = request.version_id
           THEN ActiveIds(after) = {request.version_id}
           ELSE after = before
    /\ (/\ request.fn = "admin_prospectus_delete"
        /\ request.version_id \in ActiveIds(before)
        /\ \E row \in before.rows : row.id # request.version_id)
           => /\ ActiveIds(after) = {NewestId(after)}
              /\ \A row \in after.rows : row.id # request.version_id
    /\ (/\ request.fn = "admin_prospectus_delete"
        /\ \A row \in before.rows : row.id # request.version_id)
           => after = before

\* C30: after any sequence of uploads (with or without activate_now),
\* activations and deletions of existing or missing ids at most one version
\* has is_active = 1; activating an existing version leaves exactly that one
\* active, activating a missing id changes nothing, and deleting the active
\* version while others exist leaves exactly one active, the most recently
\* created of those that remain.
C30_OneActiveVersion ==
    /\ [](Cardinality(ActiveIds(prospectus_versions)) <= 1)
    /\ [][now' = now =>
             ProspectusStep(prospectus_versions, prospectus_versions', calc')]_vars

\* the oldest version was active and was deleted while two others existed:
\* the newer of the two is the active one
C30_Witness ==
    /\ calc.fn = "admin_prospectus_delete"
    /\ calc.fallback_id # 0
    /\ Cardinality(prospectus_versions.rows) = 2
    /\ ActiveIds(prospectus_versions) = {calc.fallback_id}
    /\ calc.fallback_id = NewestId(prospectus_versions)
    /\ calc.version_id < calc.fallback_id

====
